---- MODULE Spec2Model ----
(***************************************************************************)
(* Model of Ghoul's model reader (src/src/io/model/modelreaderassimp.cpp): *)
(* the import of a scene into a ModelGeometry (loadModel) and the binary   *)
(* cache of a ModelGeometry (saveCachedFile / loadCachedFile); and of the  *)
(* reference counting of src/src/opengl/programobjectmanager.cpp.          *)
(*                                                                         *)
(* Representation.                                                         *)
(*  - A string is a sequence of character codes; a cache file is a         *)
(*    sequence of cells, one cell per scalar the code reads or writes with *)
(*    one fileStream.read / write of a scalar (an int32, a bool, a float,  *)
(*    a char).  Raw copies in native byte order are the identity on cells. *)
(*  - A pointer to an opengl::Texture owned by textureStorage[j] is the    *)
(*    position j; nullptr is 0.                                            *)
(*  - A float is an integer.                                               *)
(***************************************************************************)
EXTENDS Integers, Sequences, FiniteSets, TLC

VARIABLES scene, forceRenderInvisible, faults, geom, geomOrigin, file,
          fileOrigin, disk, saved, savedOrigin, result, decodeLog,
          builtLog, noticeLog, programs, programLog

vars == <<scene, forceRenderInvisible, faults, geom, geomOrigin, file,
          fileOrigin, disk, saved, savedOrigin, result, decodeLog,
          builtLog, noticeLog, programs, programLog>>

(***************************************************************************)
(* Bounds of the model.                                                    *)
(***************************************************************************)
MaxCodecMeshes == 2
MaxVertices == 2
MaxTextures == 2
MaxSceneMeshes == 2
MaxRefs == 2
MaxNodes == 3
MaxCut == 2
MaxRequests == 3
FailAfter == 3

(***************************************************************************)
(* Program constants.                                                      *)
(***************************************************************************)
FORMAT_STRING_SIZE == 4
CurrentCacheVersion == 1

(***************************************************************************)
(* Generic helpers.                                                        *)
(***************************************************************************)
Min(a, b) == IF a <= b THEN a ELSE b

Prefix(s, n) == SubSeq(s, 1, Min(n, Len(s)))

NoGeom == [meshes |-> <<>>, textureStorage |-> <<>>, null |-> TRUE]

Geometry(meshArray, storage) ==
    [meshes |-> meshArray, textureStorage |-> storage, null |-> FALSE]

(***************************************************************************)
(* Strings used by the code.  The type tags are abbreviated to two         *)
(* characters ("td" for "texture_diffuse", ...): only their identity and   *)
(* their being non-empty matter to the code.                               *)
(***************************************************************************)
texture_diffuse == <<116, 100>>
texture_specular == <<116, 115>>
texture_normal == <<116, 110>>
color_diffuse == <<99, 100>>
color_specular == <<99, 115>>

(***************************************************************************)
(* formatToString / stringToFormat / dataTypeToString / stringToDataType.  *)
(* A thrown MissingCaseException is the empty string (xToString) or the    *)
(* value "MissingCaseException" (stringToX).                               *)
(***************************************************************************)
\* the code is not padded to FORMAT_STRING_SIZE characters
Pad_Unpadded(subString) == subString

Pad(subString) ==
    [i \in 1..FORMAT_STRING_SIZE |->
        IF i <= Len(subString) THEN subString[i] ELSE 32]

formatToString(format) ==
    CASE format = "Red" -> Pad(<<82, 101, 100>>)
      [] format = "RG" -> Pad(<<82, 71>>)
      [] format = "RGB" -> Pad(<<82, 71, 66>>)
      [] format = "BGR" -> Pad(<<66, 71, 82>>)
      [] format = "RGBA" -> Pad(<<82, 71, 66, 65>>)
      [] format = "BGRA" -> Pad(<<66, 71, 82, 65>>)
      [] format = "DepthComponent" -> Pad(<<68, 101, 112, 116>>)
      [] OTHER -> <<>>

stringToFormat(format) ==
    CASE format = <<82, 101, 100, 32>> -> "Red"
      [] format = <<82, 71, 32, 32>> -> "RG"
      [] format = <<82, 71, 66, 32>> -> "RGB"
      [] format = <<66, 71, 82, 32>> -> "BGR"
      [] format = <<82, 71, 66, 65>> -> "RGBA"
      [] format = <<66, 71, 82, 65>> -> "BGRA"
      [] format = <<68, 101, 112, 116>> -> "DepthComponent"
      [] OTHER -> "MissingCaseException"

dataTypeToString(dataType) ==
    CASE dataType = "GL_BYTE" -> Pad(<<98, 121, 116, 101>>)
      [] dataType = "GL_UNSIGNED_BYTE" -> Pad(<<117, 98, 121, 116>>)
      [] dataType = "GL_SHORT" -> Pad(<<115, 104, 111, 114>>)
      [] dataType = "GL_UNSIGNED_SHORT" -> Pad(<<117, 115, 104, 111>>)
      [] dataType = "GL_INT" -> Pad(<<105, 110, 116>>)
      [] dataType = "GL_UNSIGNED_INT" -> Pad(<<117, 105, 110, 116>>)
      [] dataType = "GL_FLOAT" -> Pad(<<102, 108, 111, 97>>)
      [] dataType = "GL_DOUBLE" -> Pad(<<100, 111, 117, 98>>)
      [] OTHER -> <<>>

stringToDataType(dataType) ==
    CASE dataType = <<98, 121, 116, 101>> -> "GL_BYTE"
      [] dataType = <<117, 98, 121, 116>> -> "GL_UNSIGNED_BYTE"
      [] dataType = <<115, 104, 111, 114>> -> "GL_SHORT"
      [] dataType = <<117, 115, 104, 111>> -> "GL_UNSIGNED_SHORT"
      [] dataType = <<105, 110, 116, 32>> -> "GL_INT"
      [] dataType = <<117, 105, 110, 116>> -> "GL_UNSIGNED_INT"
      [] dataType = <<102, 108, 111, 97>> -> "GL_FLOAT"
      [] dataType = <<100, 111, 117, 98>> -> "GL_DOUBLE"
      [] OTHER -> "MissingCaseException"

(***************************************************************************)
(* Data types of modelmesh.h / modelgeometry.h / opengl/texture.h.         *)
(***************************************************************************)
Vertex(location, normal, tex, tangent) ==
    [location |-> location, normal |-> normal, tex |-> tex,
     tangent |-> tangent]

\* the fields of a vertex written in another order than they are read
VertexCells_NormalFirst(v) == v.normal \o v.location \o v.tex \o v.tangent

VertexCells(v) == v.location \o v.normal \o v.tex \o v.tangent

\* sizeof(ModelMesh::Vertex), in cells: location, normal, tex, tangent
SizeofVertex == 4 + 3 + 2 + 3

\* opengl::Texture: the pixel buffer holds expectedPixelDataSize() bytes
OpenglTexture(name, dimensions, format, internalFormat, dataType, pixels) ==
    [name |-> name, dimensions |-> dimensions, format |-> format,
     internalFormat |-> internalFormat, dataType |-> dataType,
     pixels |-> pixels]

expectedPixelDataSize(texture) == Len(texture.pixels)

TextureEntry(name, texture) == [name |-> name, texture |-> texture]

\* ModelMesh::Texture as default-constructed
DefaultTexture ==
    [type |-> <<>>, hasTexture |-> FALSE, useForcedColor |-> FALSE,
     color |-> <<0, 0, 0>>, texture |-> 0]

ModelMesh(vertexArray, indexArray, textureArray) ==
    [vertices |-> vertexArray, indices |-> indexArray,
     textures |-> textureArray]

(***************************************************************************)
(* saveCachedFile.  The writer W holds the cells written so far and the    *)
(* exception thrown, if any ("" for none).                                 *)
(***************************************************************************)
NewWriter == [out |-> <<>>, err |-> "", msg |-> ""]

\* throw e if bad holds, write the cells otherwise
ThrowOrWrite(W, bad, e, msg, cells) ==
    IF W.err /= "" THEN W
    ELSE IF bad THEN [W EXCEPT !.err = e, !.msg = msg]
    ELSE [W EXCEPT !.out = @ \o cells]

BoolCell(b) == IF b THEN 1 ELSE 0

\* the scan never matches
FindByName_Never(storage, name) == 0

\* the linear scan of the textureStorage by name: the position of the
\* first entry called name, 0 if there is none
FindByName(storage, name) ==
    IF \E te \in 1..Len(storage) : storage[te].name = name
    THEN CHOOSE te \in 1..Len(storage) :
            /\ storage[te].name = name
            /\ \A k \in 1..(te - 1) : storage[k].name /= name
    ELSE 0

WriteTextureEntry(W, entry) ==
    ThrowOrWrite(
        ThrowOrWrite(
            ThrowOrWrite(
                ThrowOrWrite(W, Len(entry.name) = 0, "ModelSaveException",
                    "No texture name was loaded",
                    <<Len(entry.name)>> \o entry.name
                        \o entry.texture.dimensions),
                formatToString(entry.texture.format) = <<>>,
                "MissingCaseException", "",
                formatToString(entry.texture.format)
                    \o <<entry.texture.internalFormat>>),
            dataTypeToString(entry.texture.dataType) = <<>>,
            "MissingCaseException", "",
            dataTypeToString(entry.texture.dataType)),
        expectedPixelDataSize(entry.texture) = 0, "ModelSaveException",
        "No texture size loaded",
        <<expectedPixelDataSize(entry.texture)>> \o entry.texture.pixels)

RECURSIVE WriteTextureStorage(_, _, _)
WriteTextureStorage(W, storage, te) ==
    IF te > Len(storage) THEN W
    ELSE WriteTextureStorage(WriteTextureEntry(W, storage[te]), storage,
                             te + 1)

\* the storage index written counted from one
TextureIndexCells_FromOne(storage, t) ==
    IF FindByName(storage, storage[t.texture].texture.name) = 0 THEN <<>>
    ELSE <<FindByName(storage, storage[t.texture].texture.name)>>

\* the storage index written for a descriptor that has a texture: <<>> when
\* the name of the texture is found nowhere in the storage
TextureIndexCells(storage, t) ==
    IF FindByName(storage, storage[t.texture].texture.name) = 0 THEN <<>>
    ELSE <<FindByName(storage, storage[t.texture].texture.name) - 1>>

\* useForcedColor is not written
WriteTexture_NoForcedColor(W, storage, t) ==
    ThrowOrWrite(
        ThrowOrWrite(W, Len(t.type) = 0, "ModelSaveException",
            "No texture type loaded",
            <<Len(t.type)>> \o t.type \o <<BoolCell(t.hasTexture)>>
                \o t.color),
        t.hasTexture /\ TextureIndexCells(storage, t) = <<>>,
        "ModelSaveException", "Could not find texture in textureStorage",
        IF t.hasTexture THEN TextureIndexCells(storage, t) ELSE <<>>)

WriteTexture(W, storage, t) ==
    ThrowOrWrite(
        ThrowOrWrite(W, Len(t.type) = 0, "ModelSaveException",
            "No texture type loaded",
            <<Len(t.type)>> \o t.type
                \o <<BoolCell(t.hasTexture), BoolCell(t.useForcedColor)>>
                \o t.color),
        t.hasTexture /\ TextureIndexCells(storage, t) = <<>>,
        "ModelSaveException", "Could not find texture in textureStorage",
        IF t.hasTexture THEN TextureIndexCells(storage, t) ELSE <<>>)

RECURSIVE WriteTextures(_, _, _, _)
WriteTextures(W, storage, textures, t) ==
    IF t > Len(textures) THEN W
    ELSE WriteTextures(WriteTexture(W, storage, textures[t]), storage,
                       textures, t + 1)

RECURSIVE FlattenVertices(_)
FlattenVertices(vertices) ==
    IF vertices = <<>> THEN <<>>
    ELSE VertexCells(Head(vertices)) \o FlattenVertices(Tail(vertices))

WriteMesh(W, storage, mesh) ==
    WriteTextures(
        ThrowOrWrite(
            ThrowOrWrite(
                ThrowOrWrite(W, Len(mesh.vertices) = 0, "ModelSaveException",
                    "No vertices were loaded",
                    <<Len(mesh.vertices)>> \o FlattenVertices(mesh.vertices)),
                Len(mesh.indices) = 0, "ModelSaveException",
                "No indices were loaded",
                <<Len(mesh.indices)>> \o mesh.indices),
            Len(mesh.textures) = 0, "ModelSaveException",
            "No textures were loaded", <<Len(mesh.textures)>>),
        storage, mesh.textures, 1)

RECURSIVE WriteMeshes(_, _, _, _)
WriteMeshes(W, storage, meshes, m) ==
    IF m > Len(meshes) THEN W
    ELSE WriteMeshes(WriteMesh(W, storage, meshes[m]), storage, meshes,
                     m + 1)

\* everything saveCachedFile writes to an opened stream that never fails
WriteModel(model) ==
    WriteMeshes(
        ThrowOrWrite(
            WriteTextureStorage(
                ThrowOrWrite(NewWriter, FALSE, "", "",
                    <<CurrentCacheVersion, Len(model.textureStorage)>>),
                model.textureStorage, 1),
            Len(model.meshes) = 0, "ModelSaveException",
            "No meshes were loaded", <<Len(model.meshes)>>),
        model.textureStorage, model.meshes, 1)

\* the state of the stream is not looked at
CloseWriter_AlwaysTrue(W, limit) ==
    [status |-> IF W.err /= "" THEN W.err ELSE "true",
     msg |-> W.msg,
     file |-> IF limit < 0 THEN W.out ELSE Prefix(W.out, limit)]

\* the stream after the writes of W, when the destination accepts limit
\* cells before a write fails (-1: every write succeeds)
CloseWriter(W, limit) ==
    [status |-> IF W.err /= "" THEN W.err
                ELSE IF limit < 0 \/ Len(W.out) <= limit THEN "true"
                ELSE "false",
     msg |-> W.msg,
     file |-> IF limit < 0 THEN W.out ELSE Prefix(W.out, limit)]

\* saveCachedFile(cachedFile, model): openOk is whether the destination
\* opens, oldFile the content of the destination before the call
saveCachedFile(oldFile, model, openOk, limit) ==
    IF ~openOk
    THEN [status |-> "ModelSaveException", msg |-> "Error opening file",
          file |-> oldFile]
    ELSE CloseWriter(WriteModel(model), limit)

(***************************************************************************)
(* loadCachedFile.  The read position p is the index of the next cell; a   *)
(* read past the end of the stream fails, leaves (the rest of) its target  *)
(* as it was, and makes every later read fail: p stays Len(s) + 1.         *)
(* A target the code does not initialise holds junk, an arbitrary value.   *)
(* A loop carries r = [err, msg, p, val]: the exception thrown ("" for     *)
(* none), the read position and the array read so far.                     *)
(***************************************************************************)
Cell(s, p, init) == IF p <= Len(s) THEN s[p] ELSE init

Cells(s, p, n, fill) ==
    [i \in 1..n |-> IF p + i - 1 <= Len(s) THEN s[p + i - 1] ELSE fill]

Skip(s, p, n) == IF p + n - 1 <= Len(s) THEN p + n ELSE Len(s) + 1

Failed(e, msg) == [err |-> e, msg |-> msg, p |-> 0, val |-> <<>>]

Done(p, val) == [err |-> "", msg |-> "", p |-> p, val |-> val]

CellsToVertex(c) ==
    Vertex(SubSeq(c, 1, 4), SubSeq(c, 5, 7), SubSeq(c, 8, 9),
           SubSeq(c, 10, 12))

\* the name of an opengl::Texture on which setName was never called
UnnamedTexture == <<>>

\* index >= size for an unsigned int index held in a 32-bit cell: a cell
\* that is negative as an int32 is at least 2^31 as an unsigned int
UnsignedAtLeast(index, size) == index < 0 \/ index >= size

\* one iteration of the texture entry loop, the entry starting at cell r.p
ReadTextureEntry(s, r, junk) ==
    LET nameSize == Cell(s, r.p, 0)
        p1 == Skip(s, r.p, 1)
        name == Cells(s, p1, nameSize, 0)
        p2 == Skip(s, p1, nameSize)
        dimensions == Cells(s, p2, 3, 0)
        p3 == Skip(s, p2, 3)
        format == stringToFormat(Cells(s, p3, FORMAT_STRING_SIZE, 0))
        p4 == Skip(s, p3, FORMAT_STRING_SIZE)
        internalFormat == Cell(s, p4, junk)
        p5 == Skip(s, p4, 1)
        dataType == stringToDataType(Cells(s, p5, FORMAT_STRING_SIZE, 0))
        p6 == Skip(s, p5, FORMAT_STRING_SIZE)
        textureSize == Cell(s, p6, 0)
        p7 == Skip(s, p6, 1)
    IN  IF nameSize = 0
        THEN Failed("ModelLoadException", "No texture name was loaded")
        ELSE IF nameSize < 0 THEN Failed("std::length_error", "")
        ELSE IF format = "MissingCaseException"
        THEN Failed("MissingCaseException", "")
        ELSE IF dataType = "MissingCaseException"
        THEN Failed("MissingCaseException", "")
        ELSE IF textureSize = 0
        THEN Failed("ModelLoadException", "No texture size was loaded")
        ELSE IF textureSize < 0 THEN Failed("std::bad_alloc", "")
        ELSE Done(Skip(s, p7, textureSize),
                  Append(r.val,
                      TextureEntry(name,
                          OpenglTexture(UnnamedTexture, dimensions, format,
                                        internalFormat, dataType,
                                        Cells(s, p7, textureSize, junk)))))

RECURSIVE ReadTextureStorage(_, _, _, _)
ReadTextureStorage(s, n, r, junk) ==
    IF r.err /= "" \/ Len(r.val) >= n THEN r
    ELSE ReadTextureStorage(s, n, ReadTextureEntry(s, r, junk), junk)

\* one iteration of the loop over a mesh's texture descriptors
ReadTexture(s, r, textureStorageArray, junk) ==
    LET typeSize == Cell(s, r.p, 0)
        p1 == Skip(s, r.p, 1)
        type == Cells(s, p1, typeSize, 0)
        p2 == Skip(s, p1, typeSize)
        hasTexture == Cell(s, p2, BoolCell(DefaultTexture.hasTexture)) /= 0
        p3 == Skip(s, p2, 1)
        useForcedColor ==
            Cell(s, p3, BoolCell(DefaultTexture.useForcedColor)) /= 0
        p4 == Skip(s, p3, 1)
        color == [i \in 1..3 |-> Cell(s, p4 + i - 1, DefaultTexture.color[i])]
        p5 == Skip(s, p4, 3)
        index == Cell(s, p5, junk)
        texture == [type |-> type, hasTexture |-> hasTexture,
                    useForcedColor |-> useForcedColor, color |-> color,
                    texture |-> DefaultTexture.texture]
    IN  IF typeSize = 0
        THEN Failed("ModelLoadException", "No texture type was loaded")
        ELSE IF typeSize < 0 THEN Failed("std::length_error", "")
        ELSE IF ~hasTexture THEN Done(p5, Append(r.val, texture))
        ELSE IF UnsignedAtLeast(index, Len(textureStorageArray))
        THEN Failed("ModelLoadException",
                    "Texture index is outside of textureStorage")
        ELSE Done(Skip(s, p5, 1),
                  Append(r.val, [texture EXCEPT !.texture = index + 1]))

RECURSIVE ReadTextures(_, _, _, _, _)
ReadTextures(s, n, r, textureStorageArray, junk) ==
    IF r.err /= "" \/ Len(r.val) >= n THEN r
    ELSE ReadTextures(s, n, ReadTexture(s, r, textureStorageArray, junk),
                      textureStorageArray, junk)

\* the mesh made of the arrays read, appended to the meshes read so far
MakeMesh(meshArray, vertexArray, indexArray, textures) ==
    IF textures.err /= "" THEN textures
    ELSE Done(textures.p,
              Append(meshArray,
                     ModelMesh(vertexArray, indexArray, textures.val)))

\* one iteration of the mesh loop
ReadMesh(s, r, textureStorageArray, junk) ==
    LET nVertices == Cell(s, r.p, 0)
        p1 == Skip(s, r.p, 1)
        vertexArray ==
            [v \in 1..nVertices |->
                CellsToVertex(Cells(s, p1 + SizeofVertex * (v - 1),
                                    SizeofVertex, junk))]
        p2 == Skip(s, p1, SizeofVertex * nVertices)
        nIndices == Cell(s, p2, 0)
        p3 == Skip(s, p2, 1)
        indexArray == Cells(s, p3, nIndices, junk)
        p4 == Skip(s, p3, nIndices)
        nTextures == Cell(s, p4, 0)
        p5 == Skip(s, p4, 1)
    IN  IF nVertices = 0
        THEN Failed("ModelLoadException", "No vertices were loaded")
        ELSE IF nVertices < 0 THEN Failed("std::length_error", "")
        ELSE IF nIndices = 0
        THEN Failed("ModelLoadException", "No indices were loaded")
        ELSE IF nIndices < 0 THEN Failed("std::length_error", "")
        ELSE IF nTextures = 0
        THEN Failed("ModelLoadException", "No textures were loaded")
        ELSE IF nTextures < 0 THEN Failed("std::length_error", "")
        ELSE MakeMesh(r.val, vertexArray, indexArray,
                      ReadTextures(s, nTextures, Done(p5, <<>>),
                                   textureStorageArray, junk))

RECURSIVE ReadMeshes(_, _, _, _, _)
ReadMeshes(s, n, r, textureStorageArray, junk) ==
    IF r.err /= "" \/ Len(r.val) >= n THEN r
    ELSE ReadMeshes(s, n, ReadMesh(s, r, textureStorageArray, junk),
                    textureStorageArray, junk)

Thrown(e, msg) == [status |-> e, msg |-> msg, geom |-> NoGeom]

\* the end of loadCachedFile: the ModelGeometry of the arrays read
MakeGeometry(textureStorageArray, meshes) ==
    IF meshes.err /= "" THEN Thrown(meshes.err, meshes.msg)
    ELSE [status |-> "ok", msg |-> "",
          geom |-> Geometry(meshes.val, textureStorageArray)]

\* loadCachedFile from the mesh count on; storage is the outcome of the
\* texture entry loop
ReadMeshSection(s, storage, junk) ==
    IF storage.err /= "" THEN Thrown(storage.err, storage.msg)
    ELSE IF Cell(s, storage.p, 0) = 0
    THEN Thrown("ModelLoadException", "No meshes were loaded")
    ELSE IF Cell(s, storage.p, 0) < 0 THEN Thrown("std::length_error", "")
    ELSE MakeGeometry(storage.val,
            ReadMeshes(s, Cell(s, storage.p, 0),
                       Done(Skip(s, storage.p, 1), <<>>), storage.val, junk))

\* an older version of the cache is accepted
loadCachedFile_OlderAccepted(s, openOk, junk) ==
    IF ~openOk THEN Thrown("ModelLoadException", "Could not open file")
    ELSE IF Cell(s, 1, 0) > CurrentCacheVersion
    THEN Thrown("ModelLoadException",
                "The format of the cached file has changed")
    ELSE IF Cell(s, 2, 0) < 0 THEN Thrown("std::length_error", "")
    ELSE ReadMeshSection(s,
            ReadTextureStorage(s, Cell(s, 2, 0),
                               Done(Skip(s, Skip(s, 1, 1), 1), <<>>), junk),
            junk)

\* loadCachedFile(cachedFile): s is the content of the file, openOk whether
\* it opens; the result holds the returned geometry or the exception
loadCachedFile(s, openOk, junk) ==
    IF ~openOk THEN Thrown("ModelLoadException", "Could not open file")
    ELSE IF Cell(s, 1, 0) /= CurrentCacheVersion
    THEN Thrown("ModelLoadException",
                "The format of the cached file has changed")
    ELSE IF Cell(s, 2, 0) < 0 THEN Thrown("std::length_error", "")
    ELSE ReadMeshSection(s,
            ReadTextureStorage(s, Cell(s, 2, 0),
                               Done(Skip(s, Skip(s, 1, 1), 1), <<>>), junk),
            junk)

(***************************************************************************)
(* loadModel.  A scene is what the importer returns: the node arena        *)
(* (nodes[1] is the root), the meshes, the materials, and for every        *)
(* texture path whether it names an embedded texture and what the texture  *)
(* reader does with it.  The decodes log lists the paths passed to         *)
(* TextureReader::loadTexture, in call order.                              *)
(***************************************************************************)
Identity ==
    <<  <<1, 0, 0, 0>>, <<0, 1, 0, 0>>, <<0, 0, 1, 0>>, <<0, 0, 0, 1>>  >>

MatMul(A, B) ==
    [i \in 1..4 |-> [j \in 1..4 |->
        A[i][1] * B[1][j] + A[i][2] * B[2][j] + A[i][3] * B[3][j]
            + A[i][4] * B[4][j]]]

MatVec(A, v) ==
    [i \in 1..4 |->
        A[i][1] * v[1] + A[i][2] * v[2] + A[i][3] * v[3] + A[i][4] * v[4]]

\* texelAsFloat(j, k).a of a decoded RGBA image, j and k counted from 0
TexelAlpha(texture, j, k) ==
    texture.pixels[4 * (k * texture.dimensions[1] + j) + 4]

\* only the texel at (0, 0) is looked at
isOpague_FirstTexel(texture) ==
    TexelAlpha(texture, 0, 0) /= 0

isOpague(texture) ==
    \E j \in 0..(texture.dimensions[1] - 1) :
        \E k \in 0..(texture.dimensions[2] - 1) :
            TexelAlpha(texture, j, k) /= 0

ForcedColorTexture ==
    [DefaultTexture EXCEPT !.hasTexture = FALSE, !.useForcedColor = TRUE,
                           !.type = color_diffuse]

\* the texture array of the mesh is not searched for the path
LoadedForMesh_Never(textureArray, textureStorage, path) == FALSE

\* the texture array holds a texture named path
LoadedForMesh(textureArray, textureStorage, path) ==
    \E j \in 1..Len(textureArray) :
        /\ textureArray[j].hasTexture
        /\ textureStorage[textureArray[j].texture].texture.name = path

\* the texture at position j of the storage is appended to the texture array
ReuseTexture(st, typeString, path, j) ==
    [st EXCEPT
        !.textureArray =
            Append(@, [DefaultTexture EXCEPT !.type = typeString,
                                             !.texture = j,
                                             !.hasTexture = TRUE]),
        !.textureStorage[j].texture.name = path]

\* a loaded texture is appended to the texture array and to the storage
AddTexture(st, typeString, path, texture) ==
    [st EXCEPT
        !.textureArray =
            Append(@, [DefaultTexture EXCEPT
                          !.type = typeString,
                          !.texture = Len(st.textureStorage) + 1,
                          !.hasTexture = TRUE]),
        !.textureStorage = Append(@, TextureEntry(path, texture))]

\* the loop goes on after a texture that failed to load
FailTexture_Continues(st) ==
    [st EXCEPT !.textureArray = Append(@, ForcedColorTexture)]

\* a texture that failed to load: the flashy colour, and return false
FailTexture(st) ==
    [st EXCEPT !.success = FALSE,
               !.textureArray = Append(@, ForcedColorTexture)]

\* a call of TextureReader::loadTexture
CallReader(st, path) == [st EXCEPT !.decodes = Append(@, path)]

\* the textureStorage is not searched for the path
loadMaterialTexture_NoLookup(sc, path, typeString, st) ==
    IF LoadedForMesh(st.textureArray, st.textureStorage, path) THEN st
    ELSE IF sc.textures[path].embedded = "uncompressed" THEN FailTexture(st)
    ELSE IF sc.textures[path].reader /= "ok"
    THEN FailTexture(CallReader(st, path))
    ELSE IF ~isOpague(sc.textures[path].image) THEN CallReader(st, path)
    ELSE AddTexture(CallReader(st, path), typeString, path,
                    [sc.textures[path].image EXCEPT !.name = path])

\* a texture without an opaque texel is left out of the mesh but stored
loadMaterialTexture_TransparentStored(sc, path, typeString, st) ==
    IF LoadedForMesh(st.textureArray, st.textureStorage, path) THEN st
    ELSE IF FindByName(st.textureStorage, path) /= 0
    THEN ReuseTexture(st, typeString, path,
                      FindByName(st.textureStorage, path))
    ELSE IF sc.textures[path].embedded = "uncompressed" THEN FailTexture(st)
    ELSE IF sc.textures[path].reader /= "ok"
    THEN FailTexture(CallReader(st, path))
    ELSE IF ~isOpague(sc.textures[path].image)
    THEN [CallReader(st, path) EXCEPT !.textureStorage =
             Append(@, TextureEntry(path,
                           [sc.textures[path].image EXCEPT !.name = path]))]
    ELSE AddTexture(CallReader(st, path), typeString, path,
                    [sc.textures[path].image EXCEPT !.name = path])

\* one iteration of the loop of loadMaterialTextures;
\* st = [success, textureArray, textureStorage, decodes]
loadMaterialTexture(sc, path, typeString, st) ==
    IF LoadedForMesh(st.textureArray, st.textureStorage, path) THEN st
    ELSE IF FindByName(st.textureStorage, path) /= 0
    THEN ReuseTexture(st, typeString, path,
                      FindByName(st.textureStorage, path))
    ELSE IF sc.textures[path].embedded = "uncompressed" THEN FailTexture(st)
    ELSE IF sc.textures[path].reader /= "ok"
    THEN FailTexture(CallReader(st, path))
    ELSE IF ~isOpague(sc.textures[path].image) THEN CallReader(st, path)
    ELSE AddTexture(CallReader(st, path), typeString, path,
                    [sc.textures[path].image EXCEPT !.name = path])

\* the loop over paths[i], paths[i + 1], ...: a failed texture ends it
RECURSIVE loadMaterialTextures(_, _, _, _, _)
loadMaterialTextures(sc, paths, typeString, i, st) ==
    IF i > Len(paths) \/ ~st.success THEN st
    ELSE loadMaterialTextures(sc, paths, typeString, i + 1,
            loadMaterialTexture(sc, paths[i], typeString, st))

\* a material property read with aiMaterial::Get: <<>> when the read does
\* not return AI_SUCCESS, else the value read
IsBlack(color) == color[1] = 0 /\ color[2] = 0 /\ color[3] = 0

ColorTexture(typeString, color) ==
    [DefaultTexture EXCEPT !.hasTexture = FALSE, !.type = typeString,
                           !.color = <<color[1], color[2], color[3]>>]

AddColor(st, typeString, color) ==
    [st EXCEPT !.textureArray = Append(@, ColorTexture(typeString, color))]

processVertex(mesh, i, transform) ==
    Vertex(MatVec(transform, <<mesh.vertices[i][1], mesh.vertices[i][2],
                               mesh.vertices[i][3], 1>>),
           IF mesh.normals /= <<>> THEN mesh.normals[i] ELSE <<0, 0, 0>>,
           IF mesh.textureCoords /= <<>> THEN mesh.textureCoords[i]
           ELSE <<0, 0>>,
           IF mesh.tangents /= <<>> THEN mesh.tangents[i] ELSE <<0, 0, 0>>)

RECURSIVE FlattenFaces(_)
FlattenFaces(faces) ==
    IF faces = <<>> THEN <<>>
    ELSE Head(faces) \o FlattenFaces(Tail(faces))

\* the alpha of the diffuse colour is not looked at
diffuseChannel_AlphaIgnored(sc, material, st) ==
    IF Len(material.diffuse) > 0
    THEN loadMaterialTextures(sc, material.diffuse, texture_diffuse, 1, st)
    ELSE IF material.diffuse4 /= <<>>
    THEN AddColor(st, color_diffuse, material.diffuse4)
    ELSE IF material.diffuse3 /= <<>>
    THEN AddColor(st, color_diffuse, material.diffuse3)
    ELSE st

\* the three channels of processMesh; a channel is not reached when an
\* earlier one returned the mesh (st.success is false)
diffuseChannel(sc, material, st) ==
    IF Len(material.diffuse) > 0
    THEN loadMaterialTextures(sc, material.diffuse, texture_diffuse, 1, st)
    ELSE IF material.diffuse4 /= <<>>
    THEN IF material.diffuse4[4] /= 0
         THEN AddColor(st, color_diffuse, material.diffuse4)
         ELSE st
    ELSE IF material.diffuse3 /= <<>>
    THEN AddColor(st, color_diffuse, material.diffuse3)
    ELSE st

specularChannel(sc, material, st) ==
    IF ~st.success THEN st
    ELSE IF Len(material.specular) > 0
    THEN loadMaterialTextures(sc, material.specular, texture_specular, 1, st)
    ELSE IF material.specular4 /= <<>> /\ ~IsBlack(material.specular4)
    THEN IF material.specular4[4] /= 0
         THEN AddColor(st, color_specular, material.specular4)
         ELSE st
    ELSE IF material.specular3 /= <<>> /\ ~IsBlack(material.specular3)
    THEN AddColor(st, color_specular, material.specular3)
    ELSE st

\* the normal textures are loaded also after a channel that failed
normalChannel_AfterFailure(sc, material, st) ==
    IF Len(material.normals) > 0
    THEN loadMaterialTextures(sc, material.normals, texture_normal, 1,
                              [st EXCEPT !.success = TRUE])
    ELSE st

normalChannel(sc, material, st) ==
    IF ~st.success THEN st
    ELSE IF Len(material.normals) > 0
    THEN loadMaterialTextures(sc, material.normals, texture_normal, 1, st)
    ELSE st

\* the opacity of the material is not looked at
processMaterial_OpacityIgnored(sc, material, st) ==
    normalChannel(sc, material,
        specularChannel(sc, material, diffuseChannel(sc, material, st)))

\* the textures of a mesh; st holds an empty texture array
processMaterial(sc, material, st) ==
    IF material.opacity /= <<>> /\ material.opacity[1] = 0 THEN st
    ELSE normalChannel(sc, material,
            specularChannel(sc, material, diffuseChannel(sc, material, st)))

\* the result is [mesh, textureStorage, decodes]
MeshResult(vertexArray, indexArray, st) ==
    [mesh |-> ModelMesh(vertexArray, indexArray, st.textureArray),
     textureStorage |-> st.textureStorage, decodes |-> st.decodes]

processMesh(mesh, sc, transform, textureStorage, decodes) ==
    MeshResult([i \in 1..Len(mesh.vertices) |->
                   processVertex(mesh, i, transform)],
               FlattenFaces(mesh.faces),
               processMaterial(sc, sc.materials[mesh.materialIndex],
                   [success |-> TRUE, textureArray |-> <<>>,
                    textureStorage |-> textureStorage,
                    decodes |-> decodes]))

\* a mesh without textures is kept as it is unless forced to render
keepOrDrop_KeptEmpty(st, name, r, force, notify) ==
    IF r.mesh.textures /= <<>> \/ ~force
    THEN [st EXCEPT !.meshes = Append(@, r.mesh),
                    !.textureStorage = r.textureStorage,
                    !.decodes = r.decodes,
                    !.notices = IF notify /\ r.mesh.textures = <<>>
                                THEN Append(@, name) ELSE @]
    ELSE [st EXCEPT !.meshes = Append(@, [r.mesh EXCEPT !.textures =
                                             <<ForcedColorTexture>>]),
                    !.textureStorage = r.textureStorage,
                    !.decodes = r.decodes]

\* what processNode does with a loaded mesh;
\* st = [meshes, textureStorage, decodes, notices, built]
keepOrDrop(st, name, r, force, notify) ==
    IF r.mesh.textures /= <<>>
    THEN [st EXCEPT !.meshes = Append(@, r.mesh),
                    !.textureStorage = r.textureStorage,
                    !.decodes = r.decodes]
    ELSE IF force
    THEN [st EXCEPT !.meshes = Append(@, [r.mesh EXCEPT !.textures =
                                             <<ForcedColorTexture>>]),
                    !.textureStorage = r.textureStorage,
                    !.decodes = r.decodes]
    ELSE [st EXCEPT !.textureStorage = r.textureStorage,
                    !.decodes = r.decodes,
                    !.notices = IF notify THEN Append(@, name) ELSE @]

RECURSIVE processNode(_, _, _, _, _, _)
RECURSIVE processNodeMeshes(_, _, _, _, _, _, _)
RECURSIVE processChildren(_, _, _, _, _, _, _)

\* mesh number i of a node
MeshRef(node, sc, i) ==
    [node |-> node, mesh |-> sc.nodes[node].meshes[i],
     name |-> sc.meshes[sc.nodes[node].meshes[i]].name]

\* the call of processMesh for ref returned r: the mesh as built, the
\* storage before and after the call, the texture reader calls it made
Built(st, ref, r) ==
    [st EXCEPT !.built =
        Append(@, [node |-> ref.node, mesh |-> ref.mesh, result |-> r.mesh,
                   before |-> st.textureStorage, after |-> r.textureStorage,
                   first |-> Len(st.decodes) + 1, last |-> Len(r.decodes)])]

\* one iteration of the mesh loop of processNode
loadedMesh(st, ref, r, force, notify) ==
    keepOrDrop(Built(st, ref, r), ref.name, r, force, notify)

processNodeMeshes(node, sc, globalTransform, force, notify, i, st) ==
    IF i > Len(sc.nodes[node].meshes) THEN st
    ELSE processNodeMeshes(node, sc, globalTransform, force, notify, i + 1,
            loadedMesh(st, MeshRef(node, sc, i),
                processMesh(sc.meshes[sc.nodes[node].meshes[i]], sc,
                            globalTransform, st.textureStorage, st.decodes),
                force, notify))

\* only the first child of a node is processed
processChildren_FirstOnly(node, sc, globalTransform, force, notify, i, st) ==
    IF i > Len(sc.nodes[node].children) \/ i > 1 THEN st
    ELSE processChildren(node, sc, globalTransform, force, notify, i + 1,
            processNode(sc.nodes[node].children[i], sc, globalTransform,
                        force, notify, st))

processChildren(node, sc, globalTransform, force, notify, i, st) ==
    IF i > Len(sc.nodes[node].children) THEN st
    ELSE processChildren(node, sc, globalTransform, force, notify, i + 1,
            processNode(sc.nodes[node].children[i], sc, globalTransform,
                        force, notify, st))

\* the children of a node are processed before its meshes
processNode_ChildrenFirst(node, sc, parentTransform, force, notify, st) ==
    processNodeMeshes(node, sc,
        MatMul(parentTransform, sc.nodes[node].transform), force, notify, 1,
        processChildren(node, sc,
            MatMul(parentTransform, sc.nodes[node].transform), force, notify,
            1, st))

processNode(node, sc, parentTransform, force, notify, st) ==
    processChildren(node, sc,
        MatMul(parentTransform, sc.nodes[node].transform), force, notify, 1,
        processNodeMeshes(node, sc,
            MatMul(parentTransform, sc.nodes[node].transform), force, notify,
            1, st))

ModelLoaded(st) ==
    [status |-> "ok", geom |-> Geometry(st.meshes, st.textureStorage),
     decodes |-> st.decodes, notices |-> st.notices, built |-> st.built]

\* rootTransform is declared without an initializer: the identity where
\* ghoul/glm.h defines GLM_FORCE_CTOR_INIT, an indeterminate matrix where it
\* does not (__APPLE__)
Indeterminate ==
    <<  <<77, 0, 0, 0>>, <<0, 77, 0, 0>>, <<0, 0, 77, 0>>, <<0, 0, 0, 77>>  >>

RootTransforms == {Identity, Indeterminate}

\* the flags of the scene are not looked at
loadModel_IncompleteAccepted(sc, force, notify, rootTransform) ==
    IF sc.null \/ ~sc.hasRoot
    THEN [status |-> "ModelLoadException", geom |-> NoGeom,
          decodes |-> <<>>, notices |-> <<>>, built |-> <<>>]
    ELSE ModelLoaded(processNode(1, sc, rootTransform, force, notify,
                        [meshes |-> <<>>, textureStorage |-> <<>>,
                         decodes |-> <<>>, notices |-> <<>>,
                         built |-> <<>>]))

loadModel(sc, force, notify, rootTransform) ==
    IF sc.null \/ sc.incomplete \/ ~sc.hasRoot
    THEN [status |-> "ModelLoadException", geom |-> NoGeom,
          decodes |-> <<>>, notices |-> <<>>, built |-> <<>>]
    ELSE ModelLoaded(processNode(1, sc, rootTransform, force, notify,
                        [meshes |-> <<>>, textureStorage |-> <<>>,
                         decodes |-> <<>>, notices |-> <<>>,
                         built |-> <<>>]))

(***************************************************************************)
(* The inputs: scenes for loadModel, geometries built by a caller for      *)
(* saveCachedFile, and cache files found on disk for loadCachedFile.       *)
(***************************************************************************)
NameA == <<97>>
NameB == <<98>>
Names == {NameA, NameB}

OpaqueImage ==
    OpenglTexture(UnnamedTexture, <<1, 1, 1>>, "RGBA", 6408,
                  "GL_UNSIGNED_BYTE", <<10, 20, 30, 255>>)

\* the first texel is transparent, the second is not
MixedImage ==
    OpenglTexture(UnnamedTexture, <<2, 1, 1>>, "RGBA", 6408,
                  "GL_UNSIGNED_BYTE", <<1, 2, 3, 0, 4, 5, 6, 255>>)

TransparentImage ==
    OpenglTexture(UnnamedTexture, <<1, 2, 1>>, "RGBA", 6408,
                  "GL_UNSIGNED_BYTE", <<1, 2, 3, 0, 4, 5, 6, 0>>)

TextureSource(embedded, reader, image) ==
    [embedded |-> embedded, reader |-> reader, image |-> image]

LocalOpaque == TextureSource("none", "ok", OpaqueImage)

TextureSources ==
    {LocalOpaque,
     TextureSource("none", "ok", TransparentImage),
     TextureSource("none", "MissingReaderException", OpaqueImage),
     TextureSource("none", "TextureLoadException", OpaqueImage),
     TextureSource("compressed", "ok", MixedImage),
     TextureSource("compressed", "ok", TransparentImage),
     TextureSource("compressed", "MissingReaderException", OpaqueImage),
     TextureSource("compressed", "TextureLoadException", OpaqueImage),
     TextureSource("uncompressed", "ok", OpaqueImage)}

\* what the scene and the texture reader hold for each path
TextureWorlds ==
    {[n \in Names |-> IF n = NameA THEN src ELSE LocalOpaque] :
        src \in TextureSources}

Material(opacity, diffuse, specular, normals, colors) ==
    [opacity |-> opacity, diffuse |-> diffuse, specular |-> specular,
     normals |-> normals, diffuse4 |-> colors[1], diffuse3 |-> colors[2],
     specular4 |-> colors[3], specular3 |-> colors[4]]

NoColors == <<  <<>>, <<>>, <<>>, <<>>  >>

AiMesh(name, vertices, faces, materialIndex) ==
    [name |-> name, vertices |-> vertices, normals |-> <<>>,
     textureCoords |-> <<>>, tangents |-> <<>>, faces |-> faces,
     materialIndex |-> materialIndex]

AiNode(transform, meshes, children) ==
    [transform |-> transform, meshes |-> meshes, children |-> children]

AiScene(nodes, meshes, materials, textures) ==
    [null |-> FALSE, incomplete |-> FALSE, hasRoot |-> TRUE,
     nodes |-> nodes, meshes |-> meshes, materials |-> materials,
     textures |-> textures]

NullScene ==
    [null |-> TRUE, incomplete |-> FALSE, hasRoot |-> FALSE,
     nodes |-> <<>>, meshes |-> <<>>, materials |-> <<>>,
     textures |-> <<>>]

\* the texture paths of a channel that holds at most refs references
Paths(refs) == UNION {[1..k -> Names] : k \in 0..refs}

\* materials that differ in the textures of their channels, with refs
\* references in all
TexturedMaterials(refs) ==
    {Material(<<>>, c[1], c[2], c[3], NoColors) :
        c \in {x \in Paths(refs) \X Paths(refs) \X Paths(refs) :
                  Len(x[1]) + Len(x[2]) + Len(x[3]) = refs}}

\* the materials of k meshes that hold at most refs references in all
RECURSIVE MaterialArrays(_, _)
MaterialArrays(k, refs) ==
    IF k = 0 THEN {<<>>}
    ELSE UNION {{<<m>> \o rest : m \in TexturedMaterials(r),
                                rest \in MaterialArrays(k - 1, refs - r)} :
                r \in 0..refs}

\* mesh m is a triangle of its own, with material m; the root holds all
FlatScene(materials, textures) ==
    AiScene(<<AiNode(Identity, [m \in 1..Len(materials) |-> m], <<>>)>>,
            [m \in 1..Len(materials) |->
                AiMesh(<<109, m>>, <<  <<m, 0, 0>>, <<m, 1, 0>>, <<m, 0, 1>>  >>,
                       <<  <<0, 1, 2>>  >>, m)],
            materials, textures)

\* scenes of at most this many meshes and texture references
TexturedScenes(meshes, refs) ==
    {FlatScene(ms, w) :
        ms \in UNION {MaterialArrays(k, refs) : k \in 1..meshes},
        w \in TextureWorlds}

Scenes(meshes, refs) == TexturedScenes(meshes, refs)

\* scenes that differ in their materials: the opacity, the flat colours and
\* the textures of the three channels
Opacities == {<<>>, <<0>>, <<1>>}

\* <<diffuse colour with alpha, diffuse colour, specular colour with alpha,
\* specular colour>>, <<>> for a colour that the material does not hold
ColorSets ==
    {NoColors,
     <<  <<1, 2, 3, 1>>, <<>>, <<4, 5, 6, 1>>, <<>>  >>,
     <<  <<1, 2, 3, 0>>, <<>>, <<0, 0, 0, 1>>, <<4, 5, 6>>  >>,
     <<  <<>>, <<1, 2, 3>>, <<4, 5, 6, 0>>, <<>>  >>,
     <<  <<>>, <<>>, <<>>, <<0, 0, 0>>  >>}

Colored(material, opacity, colors) ==
    Material(opacity, material.diffuse, material.specular, material.normals,
             colors)

\* a material whose one diffuse texture is the opaque local texture
StoredFirst == Material(<<>>, <<NameB>>, <<>>, <<>>, NoColors)

\* the first path names a texture that is added, one that is transparent
\* or one that fails to decode
ColoredWorlds ==
    {w \in TextureWorlds :
        /\ w[NameA].embedded = "none"
        /\ w[NameA].reader \in {"ok", "TextureLoadException"}}

\* one mesh with textures only, under every texture world; one mesh with
\* an opacity, flat colours and one reference less; and a mesh with an
\* opacity behind a mesh that fills the storage
MaterialScenes(refs) ==
    {FlatScene(ms, w) : ms \in MaterialArrays(1, refs), w \in TextureWorlds}
    \cup {FlatScene(<<Colored(ms[1], o, c)>>, w) :
            ms \in MaterialArrays(1, refs - 1), o \in Opacities,
            c \in ColorSets, w \in ColoredWorlds}
    \cup {FlatScene(<<StoredFirst, Colored(ms[1], o, NoColors)>>, w) :
            ms \in MaterialArrays(1, refs - 1), o \in Opacities,
            w \in ColoredWorlds}

\* scenes that differ in their node tree: node 1 is the root and the parent
\* of a node is a node of lower number; a node holds a local transform and
\* references to mesh 1 (a flat colour) and mesh 2 (no material property)
TranslateX ==
    <<  <<1, 0, 0, 1>>, <<0, 1, 0, 0>>, <<0, 0, 1, 0>>, <<0, 0, 0, 1>>  >>

Scale2 ==
    <<  <<2, 0, 0, 0>>, <<0, 2, 0, 0>>, <<0, 0, 2, 0>>, <<0, 0, 0, 1>>  >>

MeshLists == {<<>>, <<1>>, <<1, 2>>}

Parents(n) ==
    {p \in [1..n -> 0..(n - 1)] :
        /\ p[1] = 0
        /\ \A k \in 2..n : p[k] >= 1 /\ p[k] < k}

Children(parent, node) ==
    SelectSeq([k \in 1..Len(parent) |-> k], LAMBDA k : parent[k] = node)

TreeMeshes ==
    <<AiMesh(<<109, 1>>, <<  <<1, 2, 3>>, <<0, 1, 0>>  >>,
             <<  <<0, 1, 0>>  >>, 1),
      AiMesh(<<109, 2>>, <<  <<3, 2, 1>>  >>, <<  <<0, 0, 0>>  >>, 2)>>

TreeMaterials ==
    <<Material(<<>>, <<>>, <<>>, <<>>,
               <<  <<>>, <<1, 2, 3>>, <<>>, <<>>  >>),
      Material(<<>>, <<>>, <<>>, <<>>, NoColors)>>

TreeScene(parent, transforms, lists) ==
    AiScene([k \in 1..Len(parent) |->
                AiNode(transforms[k], lists[k], Children(parent, k))],
            TreeMeshes, TreeMaterials, [n \in Names |-> LocalOpaque])

\* the two transforms alternate along the node numbers
Alternating(n, first) ==
    [k \in 1..n |-> IF k % 2 = first THEN TranslateX ELSE Scale2]

\* node trees of at most this many nodes
TreeScenes(nodes) ==
    UNION {{TreeScene(p, Alternating(n, first), l) :
              p \in Parents(n), first \in {0, 1},
              l \in [1..n -> MeshLists]} :
           n \in 1..nodes}

\* what the importer returns for a file that it cannot read in full
Incomplete(sc) == [sc EXCEPT !.incomplete = TRUE]

Rootless(sc) == [sc EXCEPT !.hasRoot = FALSE, !.nodes = <<>>]

BadScenes ==
    {NullScene}
    \cup {Incomplete(sc) : sc \in TreeScenes(1)}
    \cup {Rootless(sc) : sc \in TreeScenes(1)}
    \cup {Incomplete(Rootless(sc)) : sc \in TreeScenes(1)}

\* a tree whose depth-first order is not the order of the node numbers:
\* node 4 is the child of node 2, and node 3 is the sibling after node 2
BranchedScenes ==
    {TreeScene(<<0, 1, 1, 2>>, Alternating(4, first), l) :
        first \in {0, 1}, l \in [1..4 -> MeshLists]}

ImportScenes(refs, nodes) ==
    MaterialScenes(refs) \cup TreeScenes(nodes) \cup BranchedScenes
        \cup BadScenes

\* geometries built by a caller
TextureA ==
    OpenglTexture(NameA, <<1, 1, 1>>, "RGBA", 6408, "GL_UNSIGNED_BYTE",
                  <<10, 20, 30, 255>>)

TextureB ==
    OpenglTexture(NameB, <<1, 1, 1>>, "BGR", 6407, "GL_INT",
                  <<7, 8, 9>>)

CodecStorages ==
    {<<>>,
     <<TextureEntry(NameA, TextureA)>>,
     <<TextureEntry(NameA, TextureA), TextureEntry(NameB, TextureB)>>,
     \* two entries of one name
     <<TextureEntry(NameA, TextureA),
       TextureEntry(NameA, [TextureB EXCEPT !.name = NameA])>>,
     \* an entry without a name
     <<TextureEntry(<<>>, [TextureA EXCEPT !.name = <<>>])>>,
     \* a texture without pixels
     <<TextureEntry(NameA, [TextureA EXCEPT !.dimensions = <<0, 0, 0>>,
                                            !.pixels = <<>>])>>,
     \* a data type that has no code
     <<TextureEntry(NameA, [TextureA EXCEPT !.dataType = "GL_HALF_FLOAT"])>>}
    \* the formats and data types that TextureA and TextureB do not have
    \cup {<<TextureEntry(NameA, [TextureA EXCEPT !.format = c[1],
                                                 !.internalFormat = c[2],
                                                 !.dataType = c[3]])>> :
            c \in {<<"Red", 6403, "GL_BYTE">>,
                   <<"RG", 33319, "GL_SHORT">>,
                   <<"RGB", 6407, "GL_UNSIGNED_SHORT">>,
                   <<"BGRA", 32856, "GL_UNSIGNED_INT">>,
                   <<"DepthComponent", 6402, "GL_FLOAT">>,
                   <<"Red", 33321, "GL_DOUBLE">>}}

\* the descriptors a mesh may carry: a flat colour, a forced colour, or a
\* texture of the storage (option k + 2 is the texture at position k)
CodecTexture(k) ==
    CASE k = 1 -> ColorTexture(color_specular, <<3, 4, 5>>)
      [] k = 2 -> ForcedColorTexture
      [] OTHER -> [DefaultTexture EXCEPT !.type = texture_diffuse,
                                         !.hasTexture = TRUE,
                                         !.texture = k - 2]

\* the texture arrays of a mesh: runs of 1..MaxTextures consecutive options
CodecTextureArrays(nStorage) ==
    {[i \in 1..n |-> CodecTexture(k + i - 1)] :
        k \in 1..(nStorage + 2), n \in 1..MaxTextures}
    \ {ta \in {[i \in 1..n |-> CodecTexture(k + i - 1)] :
                  k \in 1..(nStorage + 2), n \in 1..MaxTextures} :
           \E i \in 1..Len(ta) : ta[i].texture > nStorage}

Rotate(seq, k) ==
    [i \in 1..Len(seq) |-> seq[((i + k - 1) % Len(seq)) + 1]]

CodecVertex(m, v) ==
    Vertex(<<m, v, 0, 1>>, <<0, v, 1>>, <<m, v>>, <<1, 0, m>>)

CodecVertices(m) == [v \in 1..MaxVertices |-> CodecVertex(m, v)]

CodecIndices(m) == [i \in 1..(MaxVertices + 1) |-> (i + m) % MaxVertices]

\* mesh m of a geometry whose meshes carry the texture array ta, rotated
CodecMesh(m, ta) == ModelMesh(CodecVertices(m), CodecIndices(m), Rotate(ta, m))

\* a mesh with one of its three arrays emptied
Emptied(mesh, array) ==
    CASE array = "vertices" -> [mesh EXCEPT !.vertices = <<>>]
      [] array = "indices" -> [mesh EXCEPT !.indices = <<>>]
      [] array = "textures" -> [mesh EXCEPT !.textures = <<>>]
      [] OTHER -> mesh

\* 0..MaxCodecMeshes meshes, all complete or one of them with an empty array
CodecMeshArrays(nStorage) ==
    {[m \in 1..n |->
        IF m = d[1] THEN Emptied(CodecMesh(m, ta), d[2])
        ELSE CodecMesh(m, ta)] :
        n \in 0..MaxCodecMeshes, ta \in CodecTextureArrays(nStorage),
        d \in (0..MaxCodecMeshes)
                \X {"none", "vertices", "indices", "textures"}}

CodecGeometries ==
    UNION {{Geometry(meshes, storage) :
              meshes \in CodecMeshArrays(Len(storage))} :
           storage \in CodecStorages}

\* cache files found on disk: the cells of an image in the layout of the
\* cache, written without any check.  An image is a geometry whose
\* descriptors may hold any storage position and whose textures may hold
\* any format or data type.
RawCode(code) == IF code = <<>> THEN <<63, 63, 63, 63>> ELSE code

RawTextureEntry(entry) ==
    <<Len(entry.name)>> \o entry.name \o entry.texture.dimensions
        \o RawCode(formatToString(entry.texture.format))
        \o <<entry.texture.internalFormat>>
        \o RawCode(dataTypeToString(entry.texture.dataType))
        \o <<Len(entry.texture.pixels)>> \o entry.texture.pixels

RawTexture(t) ==
    <<Len(t.type)>> \o t.type
        \o <<BoolCell(t.hasTexture), BoolCell(t.useForcedColor)>> \o t.color
        \o (IF t.hasTexture THEN <<t.texture - 1>> ELSE <<>>)

RECURSIVE Concat(_)
Concat(seqs) == IF seqs = <<>> THEN <<>> ELSE Head(seqs) \o Concat(Tail(seqs))

RawMesh(mesh) ==
    <<Len(mesh.vertices)>> \o FlattenVertices(mesh.vertices)
        \o <<Len(mesh.indices)>> \o mesh.indices
        \o <<Len(mesh.textures)>>
        \o Concat([t \in 1..Len(mesh.textures) |-> RawTexture(mesh.textures[t])])

RawFile(version, image) ==
    <<version, Len(image.textureStorage)>>
        \o Concat([te \in 1..Len(image.textureStorage) |->
                      RawTextureEntry(image.textureStorage[te])])
        \o <<Len(image.meshes)>>
        \o Concat([m \in 1..Len(image.meshes) |-> RawMesh(image.meshes[m])])

\* images whose first descriptor holds a storage position out of range
BadIndexImages ==
    {[g EXCEPT !.meshes[1].textures[1].texture = Len(g.textureStorage) + k] :
        g \in {x \in CodecGeometries :
                  /\ Len(x.meshes) = 1
                  /\ Len(x.meshes[1].textures) >= 1
                  /\ x.meshes[1].textures[1].hasTexture},
        k \in 1..2}
    \cup {[g EXCEPT !.meshes[1].textures[1].hasTexture = TRUE,
                    !.meshes[1].textures[1].texture = k] :
            g \in {x \in CodecGeometries :
                      /\ Len(x.textureStorage) = 0
                      /\ Len(x.meshes) = 1
                      /\ Len(x.meshes[1].textures) >= 1},
            k \in 1..2}

\* images whose first descriptor has a texture and the forced colour
BothFlagsImages ==
    {[g EXCEPT !.meshes[1].textures[1].useForcedColor = TRUE] :
        g \in {x \in CodecGeometries :
                  /\ Len(x.meshes) = 1
                  /\ Len(x.meshes[1].textures) >= 1
                  /\ x.meshes[1].textures[1].hasTexture}}

Versions == {0, CurrentCacheVersion, CurrentCacheVersion + 1}

\* what the file found on disk holds: the cells of an image under a version
\* byte, or nothing that the model describes
OnDisk(version, image) == [version |-> version, image |-> image]

NoImage == OnDisk(0, NoGeom)

\* the empty file, every image under every version, the bad-index images,
\* the images with both flags
DiskImages ==
    {NoImage}
    \cup {OnDisk(v, g) : v \in Versions, g \in CodecGeometries}
    \cup {OnDisk(CurrentCacheVersion, g) : g \in BadIndexImages}
    \cup {OnDisk(CurrentCacheVersion, g) : g \in BothFlagsImages}

Junk == {0, 77}

(***************************************************************************)
(* The state machine.  geom is the ModelGeometry the caller holds (NoGeom  *)
(* after a call that threw), file the content of the cache file.  The      *)
(* other variables record history: where geom and file come from, the      *)
(* geometry of the last save that returned true, the outcome of the last   *)
(* call, and of the last loadModel the texture reader calls, the meshes    *)
(* that processMesh returned and the notices logged.                       *)
(***************************************************************************)
Outcome(op, status, msg, openOk, limit) ==
    [op |-> op, status |-> status, msg |-> msg, openOk |-> openOk,
     limit |-> limit]

NoOutcome == Outcome("none", "", "", TRUE, -1)

InitScene ==
    /\ scene \in Scenes(MaxSceneMeshes, MaxRefs)
    /\ forceRenderInvisible \in BOOLEAN
    /\ geom = NoGeom
    /\ geomOrigin = "none"
    /\ file = <<>>
    /\ disk = NoImage
    /\ faults = FALSE

InitGeometry ==
    /\ scene = NullScene
    /\ forceRenderInvisible = FALSE
    /\ geom \in CodecGeometries
    /\ geomOrigin = "caller"
    /\ file = <<>>
    /\ disk = NoImage
    /\ faults = TRUE

InitFile ==
    /\ scene = NullScene
    /\ forceRenderInvisible = FALSE
    /\ geom = NoGeom
    /\ geomOrigin = "none"
    /\ disk \in DiskImages
    /\ file = IF disk.image.null THEN <<>>
              ELSE RawFile(disk.version, disk.image)
    /\ faults = FALSE

InitHistory ==
    /\ fileOrigin = "disk"
    /\ saved = NoGeom
    /\ savedOrigin = "none"
    /\ result = NoOutcome
    /\ decodeLog = <<>>
    /\ builtLog = <<>>
    /\ noticeLog = <<>>
    /\ programs = [name \in {} |-> 0]
    /\ programLog = [requests |-> [name \in Names |-> 0],
                     releases |-> [name \in Names |-> 0],
                     creations |-> [name \in Names |-> 0],
                     destructions |-> [name \in Names |-> 0],
                     op |-> "none", name |-> <<>>, held |-> FALSE,
                     program |-> 0, refCount |-> 0, returned |-> 0,
                     created |-> FALSE, destroyed |-> 0,
                     undefined |-> FALSE, ended |-> FALSE]

\* the outcomes of opening a file, and the write limits of a destination
OpenOutcomes == IF faults THEN BOOLEAN ELSE {TRUE}

WriteLimits == IF faults THEN {-1, FailAfter} ELSE {-1}

\* the effect of a loadModel call with outcome r
Imported(r) ==
    /\ geom' = r.geom
    /\ geomOrigin' = IF r.status = "ok" THEN "loadModel" ELSE "none"
    /\ decodeLog' = r.decodes
    /\ builtLog' = r.built
    /\ noticeLog' = r.notices
    /\ result' = Outcome("loadModel", r.status, "", TRUE, -1)
    /\ UNCHANGED <<scene, forceRenderInvisible, faults, file, fileOrigin,
                   disk, saved, savedOrigin, programs, programLog>>

LoadModel ==
    \E notifyInvisibleDropped \in BOOLEAN, rootTransform \in RootTransforms :
        Imported(loadModel(scene, forceRenderInvisible,
                           notifyInvisibleDropped, rootTransform))

\* the effect of a saveCachedFile call with outcome r
Saved(r, openOk, limit) ==
    /\ file' = r.file
    /\ fileOrigin' = IF ~openOk THEN fileOrigin
                     ELSE IF r.status = "true" THEN "saved" ELSE "partial"
    /\ disk' = IF ~openOk THEN disk ELSE NoImage
    /\ saved' = IF ~openOk THEN saved
                ELSE IF r.status = "true" THEN geom ELSE NoGeom
    /\ savedOrigin' = IF ~openOk THEN savedOrigin
                      ELSE IF r.status = "true" THEN geomOrigin ELSE "none"
    /\ result' = Outcome("save", r.status, r.msg, openOk, limit)
    /\ UNCHANGED <<scene, forceRenderInvisible, faults, geom, geomOrigin,
                   decodeLog, builtLog, noticeLog, programs, programLog>>

SaveCachedFile ==
    /\ ~geom.null
    /\ \E openOk \in OpenOutcomes, limit \in WriteLimits :
        Saved(saveCachedFile(file, geom, openOk, limit), openOk, limit)

\* the effect of a loadCachedFile call with outcome r
Loaded(r, openOk) ==
    /\ geom' = r.geom
    /\ geomOrigin' = IF r.status = "ok" THEN "cache" ELSE "none"
    /\ result' = Outcome("load", r.status, r.msg, openOk, -1)
    /\ UNCHANGED <<scene, forceRenderInvisible, faults, file, fileOrigin,
                   disk, saved, savedOrigin, decodeLog, builtLog, noticeLog,
                   programs, programLog>>

LoadCachedFile ==
    \E openOk \in OpenOutcomes, junk \in Junk :
        Loaded(loadCachedFile(file, openOk, junk), openOk)

InitImportScene ==
    /\ scene \in ImportScenes(MaxRefs, MaxNodes)
    /\ forceRenderInvisible \in BOOLEAN
    /\ geom = NoGeom
    /\ geomOrigin = "none"
    /\ file = <<>>
    /\ disk = NoImage
    /\ faults = FALSE

\* import a scene, then cache the geometry
Init == InitScene /\ InitHistory

Next == LoadModel \/ SaveCachedFile \/ LoadCachedFile

Spec == Init /\ [][Next]_vars

\* the cache file loses its last cells: what is left is a proper prefix of
\* what saveCachedFile wrote
Truncate ==
    /\ fileOrigin = "saved"
    /\ \E cut \in 1..Min(MaxCut, Len(file)) :
           file' = Prefix(file, Len(file) - cut)
    /\ fileOrigin' = "truncated"
    /\ result' = NoOutcome
    /\ UNCHANGED <<scene, forceRenderInvisible, faults, geom, geomOrigin,
                   disk, saved, savedOrigin, decodeLog, builtLog, noticeLog,
                   programs, programLog>>

\* the cells of the cache file of g that hold a count or a length: the
\* number of texture entries, per entry the name length and the pixel byte
\* count, the number of meshes, per mesh the numbers of vertices, indices
\* and descriptors, and per descriptor the length of the type
CountCells(g) ==
    {2}
    \cup UNION {{2 + Len(Concat([k \in 1..(te - 1) |->
                        RawTextureEntry(g.textureStorage[k])])) + 1,
                 2 + Len(Concat([k \in 1..te |->
                        RawTextureEntry(g.textureStorage[k])]))
                   - Len(g.textureStorage[te].texture.pixels)} :
                te \in 1..Len(g.textureStorage)}
    \cup {Len(RawFile(CurrentCacheVersion, [g EXCEPT !.meshes = <<>>]))}
    \cup UNION {{Len(RawFile(CurrentCacheVersion,
                    [g EXCEPT !.meshes = SubSeq(g.meshes, 1, m - 1)])) + c :
                  c \in {1,
                         1 + Len(<<0>> \o FlattenVertices(g.meshes[m].vertices)),
                         1 + Len(<<0>> \o FlattenVertices(g.meshes[m].vertices)
                                    \o <<0>> \o g.meshes[m].indices)}
                        \cup {1 + Len(RawMesh([g.meshes[m] EXCEPT !.textures =
                                   SubSeq(g.meshes[m].textures, 1, t - 1)])) :
                                 t \in 1..Len(g.meshes[m].textures)}} :
                m \in 1..Len(g.meshes)}

\* a count or a length of the cache file is overwritten with -1
NegateCount ==
    /\ fileOrigin = "saved"
    /\ \E p \in CountCells(saved) : file' = [file EXCEPT ![p] = -1]
    /\ fileOrigin' = "negative"
    /\ result' = NoOutcome
    /\ UNCHANGED <<scene, forceRenderInvisible, faults, geom, geomOrigin,
                   disk, saved, savedOrigin, decodeLog, builtLog, noticeLog,
                   programs, programLog>>

\* cache a geometry built by the caller, on a disk that may fail
InitCodec == InitGeometry /\ InitHistory

NextCodec == SaveCachedFile \/ LoadCachedFile \/ Truncate \/ NegateCount

SpecCodec == InitCodec /\ [][NextCodec]_vars

\* load a cache file found on disk
InitDisk == InitFile /\ InitHistory

SpecDisk == InitDisk /\ [][NextCodec]_vars

\* import a scene that the importer returned for a model file
InitImport == InitImportScene /\ InitHistory

NextImport == LoadModel

SpecImport == InitImport /\ [][NextImport]_vars

(***************************************************************************)
(* ProgramObjectManager.  programs is _programs: a map from the names held *)
(* to Info {program, refCount}; a ProgramObject is the number of the       *)
(* creationFunction call that made it.  programLog counts the calls per    *)
(* name and records the last call: whether the name was held, its program  *)
(* and refCount before the call, the pointer returned, whether the         *)
(* creationFunction ran and the program handed to destructionFunction (0   *)
(* for none).  A release of a name that is not held fails ghoul_assert,    *)
(* and where the assertion is compiled out it dereferences end(): the      *)
(* behaviour is undefined and no later call is modelled.                   *)
(***************************************************************************)
requestProgramObject ==
    /\ ~programLog.undefined /\ ~programLog.ended
    /\ \E name \in Names :
        /\ programLog.requests[name] < MaxRequests
        /\ IF name \notin DOMAIN programs
           THEN /\ programs' =
                       [n \in DOMAIN programs \cup {name} |->
                           IF n = name
                           THEN [program |->
                                     programLog.creations[NameA]
                                         + programLog.creations[NameB] + 1,
                                 refCount |-> 1]
                           ELSE programs[n]]
                /\ programLog' =
                       [programLog EXCEPT
                           !.requests[name] = @ + 1,
                           !.creations[name] = @ + 1,
                           !.op = "request", !.name = name, !.held = FALSE,
                           !.program = 0, !.refCount = 0,
                           !.returned = programLog.creations[NameA]
                                            + programLog.creations[NameB] + 1,
                           !.created = TRUE, !.destroyed = 0]
           ELSE /\ programs' = [programs EXCEPT ![name].refCount = @ + 1]
                /\ programLog' =
                       [programLog EXCEPT
                           !.requests[name] = @ + 1,
                           !.op = "request", !.name = name, !.held = TRUE,
                           !.program = programs[name].program,
                           !.refCount = programs[name].refCount,
                           !.returned = programs[name].program,
                           !.created = FALSE, !.destroyed = 0]
    /\ UNCHANGED <<scene, forceRenderInvisible, faults, geom, geomOrigin,
                   file, fileOrigin, disk, saved, savedOrigin, result,
                   decodeLog, builtLog, noticeLog>>

\* the entry is erased although other references remain
releaseProgramObject_EraseAlways ==
    /\ ~programLog.undefined /\ ~programLog.ended
    /\ \E name \in Names :
        IF name \notin DOMAIN programs
        THEN /\ programs' = programs
             /\ programLog' = [programLog EXCEPT !.undefined = TRUE,
                                   !.op = "release", !.name = name]
        ELSE /\ programs' = [n \in DOMAIN programs \ {name} |-> programs[n]]
             /\ programLog' =
                    [programLog EXCEPT
                        !.releases[name] = @ + 1,
                        !.destructions[name] = @ + 1,
                        !.op = "release", !.name = name, !.held = TRUE,
                        !.program = programs[name].program,
                        !.refCount = programs[name].refCount,
                        !.returned = 0, !.created = FALSE,
                        !.destroyed = programs[name].program]
    /\ UNCHANGED <<scene, forceRenderInvisible, faults, geom, geomOrigin,
                   file, fileOrigin, disk, saved, savedOrigin, result,
                   decodeLog, builtLog, noticeLog>>

releaseProgramObject ==
    /\ ~programLog.undefined /\ ~programLog.ended
    /\ \E name \in Names :
        IF name \notin DOMAIN programs
        THEN /\ programs' = programs
             /\ programLog' = [programLog EXCEPT !.undefined = TRUE,
                                   !.op = "release", !.name = name]
        ELSE IF programs[name].refCount - 1 = 0
        THEN /\ programs' = [n \in DOMAIN programs \ {name} |-> programs[n]]
             /\ programLog' =
                    [programLog EXCEPT
                        !.releases[name] = @ + 1,
                        !.destructions[name] = @ + 1,
                        !.op = "release", !.name = name, !.held = TRUE,
                        !.program = programs[name].program,
                        !.refCount = programs[name].refCount,
                        !.returned = 0, !.created = FALSE,
                        !.destroyed = programs[name].program]
        ELSE /\ programs' = [programs EXCEPT ![name].refCount = @ - 1]
             /\ programLog' =
                    [programLog EXCEPT
                        !.releases[name] = @ + 1,
                        !.op = "release", !.name = name, !.held = TRUE,
                        !.program = programs[name].program,
                        !.refCount = programs[name].refCount,
                        !.returned = 0, !.created = FALSE, !.destroyed = 0]
    /\ UNCHANGED <<scene, forceRenderInvisible, faults, geom, geomOrigin,
                   file, fileOrigin, disk, saved, savedOrigin, result,
                   decodeLog, builtLog, noticeLog>>

\* ~ProgramObjectManager: the assertions are checked, nothing is released
DestroyManager ==
    /\ ~programLog.undefined /\ ~programLog.ended
    /\ programLog' = [programLog EXCEPT !.ended = TRUE, !.op = "destructor"]
    /\ UNCHANGED <<scene, forceRenderInvisible, faults, geom, geomOrigin,
                   file, fileOrigin, disk, saved, savedOrigin, result,
                   decodeLog, builtLog, noticeLog, programs>>

\* a manager that holds no program, and no model
InitManager ==
    /\ scene = NullScene
    /\ forceRenderInvisible = FALSE
    /\ geom = NoGeom
    /\ geomOrigin = "none"
    /\ file = <<>>
    /\ disk = NoImage
    /\ faults = FALSE
    /\ InitHistory

NextManager == requestProgramObject \/ releaseProgramObject \/ DestroyManager

SpecManager == InitManager /\ [][NextManager]_vars

(***************************************************************************)
(* The claims.                                                             *)
(***************************************************************************)
\* the last call loaded the file that the last successful save wrote
LoadedSavedFile ==
    /\ result.op = "load"
    /\ result.openOk
    /\ fileOrigin = "saved"

\* every mesh of g holds a vertex, an index and a texture descriptor
Complete(g) ==
    \A m \in 1..Len(g.meshes) :
        /\ Len(g.meshes[m].vertices) >= 1
        /\ Len(g.meshes[m].indices) >= 1
        /\ Len(g.meshes[m].textures) >= 1

\* g has a mesh, no texture entry, and only descriptors without a texture
Plain(g) ==
    /\ ~g.null
    /\ Len(g.textureStorage) = 0
    /\ Len(g.meshes) >= 1
    /\ Complete(g)
    /\ \A m \in 1..Len(g.meshes) : \A t \in 1..Len(g.meshes[m].textures) :
           ~g.meshes[m].textures[t].hasTexture

\* C1: when saveCachedFile returned true for a geometry with at least one
\* mesh and one texture entry, loadCachedFile of the file it wrote returns
\* a geometry with as many meshes and texture entries, in the same order,
\* with equal vertex sequences, index sequences and texture pixel bytes.
C1_RoundTrip ==
    (LoadedSavedFile /\ Len(saved.meshes) >= 1
        /\ Len(saved.textureStorage) >= 1 /\ Complete(saved)) =>
        /\ result.status = "ok"
        /\ ~geom.null
        /\ Len(geom.meshes) = Len(saved.meshes)
        /\ Len(geom.textureStorage) = Len(saved.textureStorage)
        /\ \A m \in 1..Len(saved.meshes) :
               /\ geom.meshes[m].vertices = saved.meshes[m].vertices
               /\ geom.meshes[m].indices = saved.meshes[m].indices
        /\ \A te \in 1..Len(saved.textureStorage) :
               geom.textureStorage[te].texture.pixels
                   = saved.textureStorage[te].texture.pixels

\* C1 witness: two different meshes and two different textures came back
C1_Witness ==
    /\ LoadedSavedFile
    /\ result.status = "ok"
    /\ Len(geom.meshes) >= 2
    /\ geom.meshes[1].vertices /= geom.meshes[2].vertices
    /\ Len(geom.textureStorage) >= 2
    /\ geom.textureStorage[1].texture.pixels
           /= geom.textureStorage[2].texture.pixels

\* C2: for a geometry produced by loadModel, the storage index that
\* saveCachedFile writes for a hasTexture descriptor is the position of the
\* entry the descriptor references, and after loadCachedFile of the saved
\* file the descriptor references the entry at the same position, which
\* has the same name.
C2_IndexIsPosition ==
    /\ (savedOrigin = "loadModel") =>
           \A m \in 1..Len(saved.meshes) :
               \A t \in 1..Len(saved.meshes[m].textures) :
                   saved.meshes[m].textures[t].hasTexture =>
                       TextureIndexCells(saved.textureStorage,
                                         saved.meshes[m].textures[t])
                           = <<saved.meshes[m].textures[t].texture - 1>>
    /\ (LoadedSavedFile /\ savedOrigin = "loadModel") =>
           /\ result.status = "ok"
           /\ Len(geom.meshes) = Len(saved.meshes)
           /\ Len(geom.textureStorage) = Len(saved.textureStorage)
           /\ \A m \in 1..Len(saved.meshes) :
                  /\ Len(geom.meshes[m].textures)
                         = Len(saved.meshes[m].textures)
                  /\ \A t \in 1..Len(saved.meshes[m].textures) :
                         saved.meshes[m].textures[t].hasTexture =>
                             /\ geom.meshes[m].textures[t].hasTexture
                             /\ geom.meshes[m].textures[t].texture
                                    = saved.meshes[m].textures[t].texture
                             /\ geom.textureStorage[
                                    geom.meshes[m].textures[t].texture].name
                                    = saved.textureStorage[
                                          saved.meshes[m].textures[t].texture
                                      ].name

\* C2 witness: a descriptor that references the second entry of the storage
\* came back from the cache of an imported geometry
C2_Witness ==
    /\ LoadedSavedFile
    /\ savedOrigin = "loadModel"
    /\ result.status = "ok"
    /\ Len(geom.textureStorage) = 2
    /\ \E m \in 1..Len(geom.meshes) : \E t \in 1..Len(geom.meshes[m].textures) :
           /\ geom.meshes[m].textures[t].hasTexture
           /\ geom.meshes[m].textures[t].texture = 2

\* C3: a geometry without texture entries whose (complete) meshes carry only
\* descriptors with hasTexture = false is saved with result true on a
\* destination that opens and accepts every write, and loadCachedFile of
\* that file returns the same vertices and indices and, for every
\* descriptor, the same type tag, hasTexture = false, the same
\* useForcedColor and the same color.
C3_PlainRoundTrip ==
    /\ (result.op = "save" /\ result.openOk /\ result.limit < 0
           /\ Plain(geom)) => result.status = "true"
    /\ (LoadedSavedFile /\ Plain(saved)) =>
           /\ result.status = "ok"
           /\ Len(geom.textureStorage) = 0
           /\ Len(geom.meshes) = Len(saved.meshes)
           /\ \A m \in 1..Len(saved.meshes) :
                  /\ geom.meshes[m].vertices = saved.meshes[m].vertices
                  /\ geom.meshes[m].indices = saved.meshes[m].indices
                  /\ Len(geom.meshes[m].textures)
                         = Len(saved.meshes[m].textures)
                  /\ \A t \in 1..Len(saved.meshes[m].textures) :
                         /\ geom.meshes[m].textures[t].type
                                = saved.meshes[m].textures[t].type
                         /\ ~geom.meshes[m].textures[t].hasTexture
                         /\ geom.meshes[m].textures[t].useForcedColor
                                = saved.meshes[m].textures[t].useForcedColor
                         /\ geom.meshes[m].textures[t].color
                                = saved.meshes[m].textures[t].color

\* C3 witness: a flat colour and a forced colour came back from the cache
C3_Witness ==
    /\ LoadedSavedFile
    /\ Plain(saved)
    /\ result.status = "ok"
    /\ \E t \in 1..Len(geom.meshes[1].textures) :
           /\ geom.meshes[1].textures[t].useForcedColor
           /\ geom.meshes[1].textures[t].type = color_diffuse
    /\ \E t \in 1..Len(geom.meshes[1].textures) :
           /\ ~geom.meshes[1].textures[t].useForcedColor
           /\ geom.meshes[1].textures[t].color = <<3, 4, 5>>

\* C4: loadCachedFile of a stream that is empty or whose first byte is not
\* the current version throws ModelLoadException and returns no geometry,
\* whatever follows the first byte.
C4_VersionMismatch ==
    (result.op = "load" /\ (file = <<>> \/ file[1] /= CurrentCacheVersion)) =>
        /\ result.status = "ModelLoadException"
        /\ geom.null

\* C4 witness: a load of a complete image under an older version byte
C4_Witness ==
    /\ result.op = "load"
    /\ Len(file) > 3
    /\ file[1] = CurrentCacheVersion - 1
    /\ disk.image.textureStorage /= <<>>
    /\ Len(disk.image.meshes) >= 1
    /\ Complete(disk.image)
    /\ result.status = "ModelLoadException"

\* the stream of g holds a zero mesh count, or a zero vertex, index or
\* texture descriptor count
ZeroCount(g) == Len(g.meshes) = 0 \/ ~Complete(g)

\* C5: loadCachedFile throws ModelLoadException and returns no geometry
\* whenever the stream holds a mesh count of zero or a mesh with a vertex
\* count, index count or descriptor count of zero; a stream whose only zero
\* count is the texture entry count is loaded.
C5_ZeroCounts ==
    /\ (result.op = "load" /\ ~disk.image.null /\ ZeroCount(disk.image)) =>
           /\ result.status = "ModelLoadException"
           /\ geom.null
    /\ (result.op = "load" /\ disk.version = CurrentCacheVersion
           /\ Plain(disk.image)) => result.status = "ok"

\* C6: every hasTexture descriptor of a geometry returned by loadCachedFile
\* references an entry of the geometry's texture storage, and a stream in
\* which a hasTexture descriptor carries an index that is not below the
\* texture entry count is rejected with ModelLoadException.
C6_TextureIndexInRange ==
    /\ (geomOrigin = "cache") =>
           \A m \in 1..Len(geom.meshes) :
               \A t \in 1..Len(geom.meshes[m].textures) :
                   geom.meshes[m].textures[t].hasTexture =>
                       geom.meshes[m].textures[t].texture
                           \in 1..Len(geom.textureStorage)
    /\ (result.op = "load" /\ ~disk.image.null
           /\ \E m \in 1..Len(disk.image.meshes) :
                  \E t \in 1..Len(disk.image.meshes[m].textures) :
                      /\ disk.image.meshes[m].textures[t].hasTexture
                      /\ disk.image.meshes[m].textures[t].texture - 1
                             >= Len(disk.image.textureStorage)) =>
           /\ result.status = "ModelLoadException"
           /\ geom.null

\* C7: saveCachedFile throws ModelSaveException, and so does not return
\* true, whenever the geometry has no mesh or a mesh without a vertex,
\* without an index or without a texture descriptor.
C7_ZeroCountsNotSaved ==
    (result.op = "save" /\ ZeroCount(geom)) =>
        result.status = "ModelSaveException"

\* a write of the last saveCachedFile failed: the code wrote more cells
\* than the destination accepted
WriteFailed ==
    /\ result.limit >= 0
    /\ Len(WriteModel(geom).out) > result.limit

\* g passes every check of saveCachedFile
Writable(g) ==
    /\ Len(g.meshes) >= 1
    /\ Complete(g)
    /\ \A te \in 1..Len(g.textureStorage) :
           /\ g.textureStorage[te].name /= <<>>
           /\ g.textureStorage[te].texture.pixels /= <<>>
           /\ formatToString(g.textureStorage[te].texture.format) /= <<>>
           /\ dataTypeToString(g.textureStorage[te].texture.dataType) /= <<>>
    /\ \A m \in 1..Len(g.meshes) : \A t \in 1..Len(g.meshes[m].textures) :
           /\ g.meshes[m].textures[t].type /= <<>>
           /\ g.meshes[m].textures[t].hasTexture =>
                  \E te \in 1..Len(g.textureStorage) :
                      g.textureStorage[te].name
                          = g.textureStorage[
                                g.meshes[m].textures[t].texture].texture.name

Decodes(name) ==
    Cardinality({i \in 1..Len(decodeLog) : decodeLog[i] = name})

\* the descriptors of g that have a texture, as <<mesh, position>>
TextureRefs(g) ==
    {mt \in UNION {{<<m, t>> : t \in 1..Len(g.meshes[m].textures)} :
                      m \in 1..Len(g.meshes)} :
        g.meshes[mt[1]].textures[mt[2]].hasTexture}

\* the source name of the texture that descriptor mt of g references
SourceName(g, mt) ==
    g.textureStorage[g.meshes[mt[1]].textures[mt[2]].texture].texture.name

\* C9: after loadModel the texture storage holds at most one entry per
\* source name, two hasTexture descriptors of equal source name (of one
\* mesh or of two) reference the same entry, and a texture found in the
\* storage adds no entry: the entries are as many as the names decoded
\* into the storage.
C9_OneEntryPerName ==
    (geomOrigin = "loadModel") =>
        /\ \A i, j \in 1..Len(geom.textureStorage) :
               geom.textureStorage[i].name = geom.textureStorage[j].name
                   => i = j
        /\ \A te \in 1..Len(geom.textureStorage) :
               /\ geom.textureStorage[te].texture.name
                      = geom.textureStorage[te].name
               /\ Decodes(geom.textureStorage[te].name) >= 1
        /\ \A mt1, mt2 \in TextureRefs(geom) :
               SourceName(geom, mt1) = SourceName(geom, mt2) =>
                   geom.meshes[mt1[1]].textures[mt1[2]].texture
                       = geom.meshes[mt2[1]].textures[mt2[2]].texture
        /\ Len(geom.textureStorage)
               <= Cardinality({decodeLog[i] : i \in 1..Len(decodeLog)})

\* C9 witness: two meshes reference the one entry of the storage
C9_Witness ==
    /\ geomOrigin = "loadModel"
    /\ Len(geom.meshes) = 2
    /\ Len(geom.textureStorage) = 1
    /\ <<1, 1>> \in TextureRefs(geom)
    /\ <<2, 1>> \in TextureRefs(geom)
    /\ geom.meshes[1].textures[1].texture = geom.meshes[2].textures[1].texture

\* C10 as stated: during one loadModel the texture reader is called at most
\* once per texture path, whatever the texture of that path decodes to.
C10_OneDecodePerName ==
    (result.op = "loadModel") => \A n \in Names : Decodes(n) <= 1

\* the texture of this source is decoded and added to the storage
Kept(source) ==
    /\ source.embedded /= "uncompressed"
    /\ source.reader = "ok"
    /\ isOpague(source.image)

\* C10 amended: during one loadModel the texture reader is called at most
\* once per texture path whose texture is decoded into an image with a
\* texel of non-zero alpha, however many meshes and channels reference it.
C10_OneDecodePerKeptName ==
    (result.op = "loadModel") =>
        \A n \in Names : Kept(scene.textures[n]) => Decodes(n) <= 1

\* C10 witness: two meshes reference one path in different channels, and
\* the reader was called once for it
C10_Witness ==
    /\ result.op = "loadModel"
    /\ Len(scene.materials) = 2
    /\ scene.materials[1].diffuse = <<NameB>>
    /\ scene.materials[2].specular = <<NameB>>
    /\ decodeLog = <<NameB>>
    /\ Len(geom.meshes) = 2

\* the last call was a loadModel that returned a ModelGeometry
ImportDone == result.op = "loadModel" /\ result.status = "ok"

\* the material of the mesh that the processMesh call b was given
BuiltMaterial(b) == scene.materials[scene.meshes[b.mesh].materialIndex]

\* the texture paths that a material references, in any channel
Referenced(material) ==
    {material.diffuse[i] : i \in 1..Len(material.diffuse)}
    \cup {material.specular[i] : i \in 1..Len(material.specular)}
    \cup {material.normals[i] : i \in 1..Len(material.normals)}

\* the texture of this path cannot be loaded
Fails(name) ==
    \/ scene.textures[name].embedded = "uncompressed"
    \/ scene.textures[name].reader /= "ok"

\* every texel of an RGBA image has alpha 0
ZeroAlpha(image) ==
    \A i \in 1..Len(image.pixels) : i % 4 = 0 => image.pixels[i] = 0

\* the paths that the processMesh call b passed to the texture reader
DecodedBy(b) == {decodeLog[k] : k \in b.first..b.last}

\* the mesh that the call b returned holds a texture of this path
Holds(b, name) ==
    \E t \in 1..Len(b.result.textures) :
        /\ b.result.textures[t].hasTexture
        /\ b.after[b.result.textures[t].texture].name = name

Stored(storage, name) ==
    \E te \in 1..Len(storage) : storage[te].name = name

OpacityZero(material) ==
    material.opacity /= <<>> /\ material.opacity[1] = 0

C11_Mesh(b) ==
    /\ \A n \in DecodedBy(b) :
           ~Fails(n) =>
               IF ZeroAlpha(scene.textures[n].image)
               THEN ~Holds(b, n) /\ ~Stored(b.after, n)
               ELSE Holds(b, n) /\ Stored(b.after, n)
                        /\ ~Stored(b.before, n)
    /\ (/\ ~OpacityZero(BuiltMaterial(b))
        /\ \A n \in Referenced(BuiltMaterial(b)) : ~Fails(n)) =>
           \A n \in Referenced(BuiltMaterial(b)) :
               ~ZeroAlpha(scene.textures[n].image) => Holds(b, n)

\* C11: a texture that is decoded and has alpha 0 in every texel is added
\* neither to the texture list of the mesh nor to the texture storage, and
\* the textures that follow it are still processed: when no texture of the
\* material fails to load, the mesh holds every referenced texture that has
\* a texel of non-zero alpha.  A decoded texture with a texel of non-zero
\* alpha is added to the list and to the storage.
C11_TransparentNotAdded ==
    ImportDone => \A i \in 1..Len(builtLog) : C11_Mesh(builtLog[i])

\* C11 witness: the diffuse channel holds a transparent texture and then an
\* opaque one; both were decoded and only the second was added
C11_Witness ==
    /\ ImportDone
    /\ Len(builtLog) = 1
    /\ BuiltMaterial(builtLog[1]).diffuse = <<NameA, NameB>>
    /\ ZeroAlpha(scene.textures[NameA].image)
    /\ decodeLog = <<NameA, NameB>>
    /\ Len(builtLog[1].result.textures) = 1
    /\ Holds(builtLog[1], NameB)
    /\ Len(geom.textureStorage) = 1

C12_Mesh(b) ==
    OpacityZero(BuiltMaterial(b)) =>
        /\ b.result.textures = <<>>
        /\ b.after = b.before
        /\ b.last < b.first
        /\ Len(b.result.vertices) = Len(scene.meshes[b.mesh].vertices)
        /\ b.result.indices = Concat(scene.meshes[b.mesh].faces)

\* C12: for a mesh whose material has opacity 0, processMesh returns a mesh
\* with an empty texture list, calls no texture reader and leaves the
\* texture storage as it was, whatever textures and colours the material
\* holds; the mesh has one vertex per source vertex and the indices of the
\* source faces.
C12_OpacityZero ==
    ImportDone => \A i \in 1..Len(builtLog) : C12_Mesh(builtLog[i])

\* C12 witness: the second mesh has opacity 0 and a diffuse texture; it was
\* built with vertices and without textures while the storage held a
\* texture
C12_Witness ==
    /\ ImportDone
    /\ Len(builtLog) = 2
    /\ OpacityZero(BuiltMaterial(builtLog[2]))
    /\ BuiltMaterial(builtLog[2]).diffuse /= <<>>
    /\ builtLog[2].before /= <<>>
    /\ builtLog[2].result.textures = <<>>
    /\ Len(builtLog[2].result.vertices) = 3
    /\ Len(builtLog[2].result.indices) = 3

\* the references to mesh m in the nodes of the list and below them
RECURSIVE RefCount(_, _, _)
RefCount(sc, nodes, m) ==
    IF nodes = <<>> THEN 0
    ELSE Cardinality({i \in 1..Len(sc.nodes[Head(nodes)].meshes) :
                         sc.nodes[Head(nodes)].meshes[i] = m})
         + RefCount(sc, sc.nodes[Head(nodes)].children \o Tail(nodes), m)

\* the processMesh calls that returned a mesh with textures / without
Visible == {i \in 1..Len(builtLog) : builtLog[i].result.textures /= <<>>}

Invisible == {i \in 1..Len(builtLog) : builtLog[i].result.textures = <<>>}

\* C13: processMesh is called once for every mesh reference of the node
\* tree (a mesh referenced by k nodes k times), and the meshes of the
\* geometry that loadModel returns are as many as the calls that returned
\* a non-empty texture list, plus, when forceRenderInvisible is set, the
\* calls that returned an empty one.
C13_MeshCount ==
    ImportDone =>
        /\ \A m \in 1..Len(scene.meshes) :
               Cardinality({i \in 1..Len(builtLog) : builtLog[i].mesh = m})
                   = RefCount(scene, <<1>>, m)
        /\ Len(geom.meshes)
               = Cardinality(Visible)
                   + (IF forceRenderInvisible THEN Cardinality(Invisible)
                      ELSE 0)

\* C13 witness: three nodes, the visible mesh referenced more than once and
\* the invisible mesh referenced; the flag is unset and the invisible
\* references are not in the geometry
C13_Witness ==
    /\ ImportDone
    /\ ~forceRenderInvisible
    /\ Len(scene.nodes) = 3
    /\ RefCount(scene, <<1>>, 1) >= 2
    /\ Invisible /= {}
    /\ Len(geom.meshes) = Cardinality(Visible)
    /\ Len(geom.meshes) >= 2

\* the meshes that processMesh returned with textures, in call order
VisibleBuilt ==
    SelectSeq(builtLog, LAMBDA b : b.result.textures /= <<>>)

\* C14: every mesh of a geometry returned by loadModel has a non-empty
\* texture list.  With forceRenderInvisible a mesh built without textures
\* is in the geometry with exactly one descriptor: color_diffuse, no
\* texture, forced colour; without the flag it is not in the geometry.
\* The geometry is the same for both values of notifyInvisibleDropped, and
\* a notice is logged only for a dropped mesh.
C14_NoEmptyTextureList ==
    ImportDone =>
        /\ \A m \in 1..Len(geom.meshes) : geom.meshes[m].textures /= <<>>
        /\ forceRenderInvisible =>
               /\ Len(geom.meshes) = Len(builtLog)
               /\ noticeLog = <<>>
               /\ \A i \in Visible : geom.meshes[i] = builtLog[i].result
               /\ \A i \in Invisible :
                      /\ Len(geom.meshes[i].textures) = 1
                      /\ geom.meshes[i].textures[1].type = color_diffuse
                      /\ ~geom.meshes[i].textures[1].hasTexture
                      /\ geom.meshes[i].textures[1].useForcedColor
                      /\ geom.meshes[i].vertices
                             = builtLog[i].result.vertices
                      /\ geom.meshes[i].indices = builtLog[i].result.indices
        /\ ~forceRenderInvisible =>
               /\ geom.meshes
                      = [k \in 1..Len(VisibleBuilt) |-> VisibleBuilt[k].result]
               /\ Len(noticeLog) \in {0, Cardinality(Invisible)}
        /\ \E rootTransform \in RootTransforms :
               \A notify \in BOOLEAN :
                   geom = loadModel(scene, forceRenderInvisible, notify,
                                    rootTransform).geom

\* C14 witness: the flag is unset, a mesh without textures was dropped with
\* a notice and a mesh with textures is in the geometry
C14_Witness ==
    /\ ImportDone
    /\ ~forceRenderInvisible
    /\ Invisible /= {}
    /\ Len(noticeLog) = Cardinality(Invisible)
    /\ Len(geom.meshes) >= 1

\* the node that holds this node as a child; 0 for the root
ParentOf(sc, node) ==
    IF \E k \in 1..Len(sc.nodes) :
           \E c \in 1..Len(sc.nodes[k].children) :
               sc.nodes[k].children[c] = node
    THEN CHOOSE k \in 1..Len(sc.nodes) :
             \E c \in 1..Len(sc.nodes[k].children) :
                 sc.nodes[k].children[c] = node
    ELSE 0

\* the product of the local transforms from the root down to this node
RECURSIVE PathProduct(_, _)
PathProduct(sc, node) ==
    IF ParentOf(sc, node) = 0 THEN sc.nodes[node].transform
    ELSE MatMul(PathProduct(sc, ParentOf(sc, node)), sc.nodes[node].transform)

C15_Mesh(b) ==
    /\ Len(b.result.vertices) = Len(scene.meshes[b.mesh].vertices)
    /\ \A v \in 1..Len(b.result.vertices) :
           b.result.vertices[v].location
               = MatVec(PathProduct(scene, b.node),
                        <<scene.meshes[b.mesh].vertices[v][1],
                          scene.meshes[b.mesh].vertices[v][2],
                          scene.meshes[b.mesh].vertices[v][3], 1>>)

\* C15: every vertex position of a mesh built for a node is the source
\* position, with homogeneous coordinate 1, transformed by the product of
\* the local transforms on the path from the root to that node, in that
\* order, the parent transform of the root being the identity.
C15_PathTransform ==
    ImportDone => \A i \in 1..Len(builtLog) : C15_Mesh(builtLog[i])

\* the texture paths of the three channels, in the order of processMesh
Channels(material) ==
    <<material.diffuse, material.specular, material.normals>>

FailsIn(paths) == \E i \in 1..Len(paths) : Fails(paths[i])

\* the position of the first path of a channel that cannot be loaded
FirstFail(paths) ==
    CHOOSE i \in 1..Len(paths) :
        Fails(paths[i]) /\ \A j \in 1..(i - 1) : ~Fails(paths[j])

\* the first channel that holds a path that cannot be loaded; 0 if there
\* is none or the material has opacity 0
FailChannel(material) ==
    IF OpacityZero(material) THEN 0
    ELSE IF FailsIn(material.diffuse) THEN 1
    ELSE IF FailsIn(material.specular) THEN 2
    ELSE IF FailsIn(material.normals) THEN 3
    ELSE 0

\* the paths of the channels before channel c and of channel c before
\* position k
NamesBefore(material, c, k) ==
    UNION {{Channels(material)[d][i] : i \in 1..Len(Channels(material)[d])} :
              d \in 1..(c - 1)}
    \cup {Channels(material)[c][i] : i \in 1..(k - 1)}

IsForcedColor(t) ==
    t.type = color_diffuse /\ ~t.hasTexture /\ t.useForcedColor

\* the call b failed to load paths[k]; before holds the paths processed
\* earlier in the call
C16_Failed(b, paths, k, before) ==
    /\ b.result.textures /= <<>>
    /\ IsForcedColor(b.result.textures[Len(b.result.textures)])
    /\ b.result.textures[Len(b.result.textures)].texture = 0
    /\ ~Stored(b.after, paths[k])
    /\ ~Holds(b, paths[k])
    /\ IF scene.textures[paths[k]].embedded = "uncompressed"
       THEN paths[k] \notin DecodedBy(b)
       ELSE /\ b.last >= b.first
            /\ decodeLog[b.last] = paths[k]
            /\ Cardinality({i \in b.first..b.last :
                                decodeLog[i] = paths[k]}) = 1
    /\ \A j \in (k + 1)..Len(paths) :
           paths[j] \notin (before \cup {paths[k]}) =>
               paths[j] \notin DecodedBy(b) /\ ~Holds(b, paths[j])

C16_Mesh(b) ==
    FailChannel(BuiltMaterial(b)) /= 0 =>
        C16_Failed(b,
            Channels(BuiltMaterial(b))[FailChannel(BuiltMaterial(b))],
            FirstFail(Channels(BuiltMaterial(b))
                          [FailChannel(BuiltMaterial(b))]),
            NamesBefore(BuiltMaterial(b), FailChannel(BuiltMaterial(b)),
                FirstFail(Channels(BuiltMaterial(b))
                              [FailChannel(BuiltMaterial(b))])))

\* C16: a texture that cannot be loaded (no reader, a decode failure, an
\* uncompressed embedded texture) does not make loadModel fail: a geometry
\* is returned, the mesh built has the forced-colour descriptor
\* (color_diffuse, no texture, forced colour) where the texture would be,
\* the storage holds no entry of the failed path, and no later texture of
\* the channel is decoded or added.
C16_TextureFailureRecovered ==
    /\ (/\ result.op = "loadModel"
        /\ ~scene.null /\ ~scene.incomplete /\ scene.hasRoot) => ImportDone
    /\ ImportDone =>
           /\ ~geom.null
           /\ \A n \in Names : Fails(n) => ~Stored(geom.textureStorage, n)
           /\ \A i \in 1..Len(builtLog) : C16_Mesh(builtLog[i])

\* C16 witness: the first of two diffuse textures failed to decode; the
\* geometry holds the mesh with the forced colour alone, the storage is
\* empty and the second texture was not decoded
C16_Witness ==
    /\ ImportDone
    /\ Len(builtLog) = 1
    /\ BuiltMaterial(builtLog[1]).diffuse = <<NameA, NameB>>
    /\ scene.textures[NameA].reader = "TextureLoadException"
    /\ decodeLog = <<NameA>>
    /\ Len(geom.meshes) = 1
    /\ Len(geom.meshes[1].textures) = 1
    /\ IsForcedColor(geom.meshes[1].textures[1])
    /\ geom.textureStorage = <<>>

\* C17: loadModel throws ModelLoadException and returns no geometry when
\* the importer returns no scene, a scene flagged incomplete or a scene
\* without a root node; for every other scene it returns a geometry.
C17_ImportError ==
    (result.op = "loadModel") =>
        IF scene.null \/ scene.incomplete \/ ~scene.hasRoot
        THEN /\ result.status = "ModelLoadException"
             /\ geom.null
             /\ builtLog = <<>>
        ELSE /\ result.status = "ok"
             /\ ~geom.null

\* C17 witness: a scene with a root node and a mesh that is flagged
\* incomplete was rejected
C17_Witness ==
    /\ result.op = "loadModel"
    /\ ~scene.null
    /\ scene.incomplete
    /\ scene.hasRoot
    /\ scene.nodes[1].meshes /= <<>>
    /\ result.status = "ModelLoadException"
    /\ geom.null

\* the descriptors of g, as <<mesh, position>>
Descriptors(g) ==
    UNION {{<<m, t>> : t \in 1..Len(g.meshes[m].textures)} :
              m \in 1..Len(g.meshes)}

\* C18: in a geometry returned by loadModel or by loadCachedFile no
\* descriptor has both hasTexture and useForcedColor set, and a descriptor
\* references a texture exactly if hasTexture is set.
C18_FlagsExclusive ==
    (geomOrigin \in {"loadModel", "cache"}) =>
        \A mt \in Descriptors(geom) :
            /\ ~(/\ geom.meshes[mt[1]].textures[mt[2]].hasTexture
                 /\ geom.meshes[mt[1]].textures[mt[2]].useForcedColor)
            /\ geom.meshes[mt[1]].textures[mt[2]].hasTexture
                   <=> geom.meshes[mt[1]].textures[mt[2]].texture /= 0

\* C19: a loadCachedFile or saveCachedFile call that does not succeed
\* throws the load or save exception of the model reader with a message,
\* also for a format or data-type code that is not known and for a format
\* or data type that has no code, and a failed load returns no geometry.
C19_FailuresSurfaced ==
    /\ (result.op = "load" /\ result.status /= "ok") =>
           /\ result.status = "ModelLoadException"
           /\ result.msg /= ""
           /\ geom.null
    /\ (result.op = "save" /\ result.status /= "true") =>
           /\ result.status = "ModelSaveException"
           /\ result.msg /= ""

\* the channel that a descriptor type belongs to
Rank(type) ==
    IF type \in {texture_diffuse, color_diffuse} THEN 1
    ELSE IF type \in {texture_specular, color_specular} THEN 2
    ELSE 3

\* the descriptors of a list are in the order diffuse, specular, normal
InChannelOrder(textures) ==
    \A i, j \in 1..Len(textures) :
        i < j => Rank(textures[i].type) <= Rank(textures[j].type)

\* all but the last element
Front(seq) == SubSeq(seq, 1, Len(seq) - 1)

\* the call b met its first load failure in channel c; before holds the
\* paths processed earlier in the call
C20_Failed(b, c, before) ==
    /\ b.result.textures /= <<>>
    /\ IsForcedColor(b.result.textures[Len(b.result.textures)])
    /\ Cardinality({t \in 1..Len(b.result.textures) :
                        b.result.textures[t].useForcedColor}) = 1
    /\ InChannelOrder(Front(b.result.textures))
    /\ \A t \in 1..(Len(b.result.textures) - 1) :
           /\ Rank(b.result.textures[t].type) <= c
           /\ Rank(b.result.textures[t].type) = c
                  => b.result.textures[t].hasTexture
           /\ b.result.textures[t].hasTexture =>
                  b.after[b.result.textures[t].texture].name \in before
    /\ DecodedBy(b)
           \subseteq (before \cup {decodeLog[k] : k \in (b.first..b.last)
                                                          \cap {b.last}})

C20_Mesh(b) ==
    IF FailChannel(BuiltMaterial(b)) = 0
    THEN /\ InChannelOrder(b.result.textures)
         /\ \A t \in 1..Len(b.result.textures) :
                ~b.result.textures[t].useForcedColor
    ELSE C20_Failed(b, FailChannel(BuiltMaterial(b)),
            NamesBefore(BuiltMaterial(b), FailChannel(BuiltMaterial(b)),
                FirstFail(Channels(BuiltMaterial(b))
                              [FailChannel(BuiltMaterial(b))])))

\* C20: processMesh resolves the channels in the order diffuse, specular,
\* normal.  When a texture of a channel cannot be loaded the mesh is
\* returned at once: its list is the descriptors collected so far followed
\* by the forced-colour descriptor, no texture and no flat colour of that
\* channel or of a later one follows, and the list holds one forced-colour
\* descriptor; a mesh without a load failure holds none.
C20_FinalizedAtFailure ==
    ImportDone => \A i \in 1..Len(builtLog) : C20_Mesh(builtLog[i])

\* C20 witness: a diffuse flat colour and a specular texture that cannot be
\* decoded; the mesh holds the colour and then the forced colour
C20_Witness ==
    /\ ImportDone
    /\ Len(builtLog) = 1
    /\ BuiltMaterial(builtLog[1]).diffuse = <<>>
    /\ BuiltMaterial(builtLog[1]).specular = <<NameA>>
    /\ Fails(NameA)
    /\ decodeLog = <<NameA>>
    /\ Len(builtLog[1].result.textures) = 2
    /\ builtLog[1].result.textures[1].type = color_diffuse
    /\ ~builtLog[1].result.textures[1].useForcedColor
    /\ IsForcedColor(builtLog[1].result.textures[2])

\* the flat colour that the fallback of the diffuse channel adds for a
\* material, <<>> when it adds none
DiffuseFlat(material) ==
    IF material.diffuse /= <<>> THEN <<>>
    ELSE IF material.diffuse4 /= <<>>
    THEN IF material.diffuse4[4] /= 0 THEN Prefix(material.diffuse4, 3)
         ELSE <<>>
    ELSE material.diffuse3

SpecularFlat(material) ==
    IF material.specular /= <<>> THEN <<>>
    ELSE IF material.specular4 /= <<>> /\ ~IsBlack(material.specular4)
    THEN IF material.specular4[4] /= 0 THEN Prefix(material.specular4, 3)
         ELSE <<>>
    ELSE IF material.specular3 /= <<>> /\ ~IsBlack(material.specular3)
    THEN material.specular3
    ELSE <<>>

\* the positions of the flat-colour descriptors of a type in a list: the
\* forced-colour descriptor of a failed load is not one of them
FlatColors(textures, type) ==
    {t \in 1..Len(textures) :
        textures[t].type = type /\ ~IsForcedColor(textures[t])}

C21_Mesh(b) ==
    /\ Cardinality(FlatColors(b.result.textures, color_diffuse)) <= 1
    /\ Cardinality(FlatColors(b.result.textures, color_specular)) <= 1
    /\ \A t \in FlatColors(b.result.textures, color_diffuse) :
           /\ DiffuseFlat(BuiltMaterial(b)) /= <<>>
           /\ b.result.textures[t].color = DiffuseFlat(BuiltMaterial(b))
           /\ ~(/\ BuiltMaterial(b).diffuse4 /= <<>>
                /\ BuiltMaterial(b).diffuse4[4] = 0)
    /\ \A t \in FlatColors(b.result.textures, color_specular) :
           /\ SpecularFlat(BuiltMaterial(b)) /= <<>>
           /\ b.result.textures[t].color = SpecularFlat(BuiltMaterial(b))
           /\ b.result.textures[t].color /= <<0, 0, 0>>
           /\ ~(/\ BuiltMaterial(b).specular4 /= <<>>
                /\ ~IsBlack(BuiltMaterial(b).specular4)
                /\ BuiltMaterial(b).specular4[4] = 0)
    /\ \A t \in 1..Len(b.result.textures) :
           /\ ~b.result.textures[t].hasTexture =>
                  b.result.textures[t].type \in {color_diffuse, color_specular}
           /\ b.result.textures[t].type \in {color_diffuse, color_specular} =>
                  /\ ~b.result.textures[t].hasTexture
                  /\ b.result.textures[t].texture = 0
                  /\ b.result.textures[t].useForcedColor =>
                         /\ FailChannel(BuiltMaterial(b)) /= 0
                         /\ t = Len(b.result.textures)
    /\ BuiltMaterial(b).normals = <<>> =>
           \A t \in 1..Len(b.result.textures) :
               IsForcedColor(b.result.textures[t])
                   \/ Rank(b.result.textures[t].type) < 3

\* C21: the flat-colour fallback adds at most one descriptor to the diffuse
\* channel and at most one to the specular channel of a mesh, with the
\* colour of the material.  No color_diffuse descriptor comes from a diffuse
\* colour with alpha 0, no color_specular descriptor is black or comes from
\* a specular colour with alpha 0, a material without normal textures gets
\* no descriptor in the normal channel, and a flat-colour descriptor has
\* neither hasTexture nor useForcedColor set: the only descriptor without a
\* texture that has useForcedColor set is the last one of a mesh whose
\* texture load failed.
C21_FlatColorFallback ==
    ImportDone => \A i \in 1..Len(builtLog) : C21_Mesh(builtLog[i])

\* C21 witness: a material without textures whose diffuse colour has alpha
\* 0 and whose specular colour with alpha is black: the mesh holds the
\* three-component specular colour alone
C21_Witness ==
    /\ ImportDone
    /\ Len(builtLog) = 1
    /\ BuiltMaterial(builtLog[1]).diffuse4 = <<1, 2, 3, 0>>
    /\ BuiltMaterial(builtLog[1]).specular4 = <<0, 0, 0, 1>>
    /\ Referenced(BuiltMaterial(builtLog[1])) = {}
    /\ ~OpacityZero(BuiltMaterial(builtLog[1]))
    /\ Len(builtLog[1].result.textures) = 1
    /\ builtLog[1].result.textures[1].type = color_specular
    /\ builtLog[1].result.textures[1].color = <<4, 5, 6>>
    /\ ~builtLog[1].result.textures[1].useForcedColor

\* the positions of the list of the call b that hold a texture of this path
HeldAt(b, name) ==
    {t \in 1..Len(b.result.textures) :
        /\ b.result.textures[t].hasTexture
        /\ b.after[b.result.textures[t].texture].name = name}

\* the descriptor type of the first channel of a material that references
\* the path
FirstChannelType(material, name) ==
    IF \E i \in 1..Len(material.diffuse) : material.diffuse[i] = name
    THEN texture_diffuse
    ELSE IF \E i \in 1..Len(material.specular) : material.specular[i] = name
    THEN texture_specular
    ELSE texture_normal

C22_Mesh(b) ==
    /\ \A t, u \in 1..Len(b.result.textures) :
           (/\ t /= u
            /\ b.result.textures[t].hasTexture
            /\ b.result.textures[u].hasTexture) =>
               /\ b.result.textures[t].texture /= b.result.textures[u].texture
               /\ b.after[b.result.textures[t].texture].name
                      /= b.after[b.result.textures[u].texture].name
               /\ b.after[b.result.textures[t].texture].texture.name
                      /= b.after[b.result.textures[u].texture].texture.name
    /\ \A n \in Names :
           Holds(b, n) =>
               /\ Cardinality(HeldAt(b, n)) = 1
               /\ n \in Referenced(BuiltMaterial(b))
               /\ \A t \in HeldAt(b, n) :
                      b.result.textures[t].type
                          = FirstChannelType(BuiltMaterial(b), n)
               /\ Cardinality({k \in b.first..b.last : decodeLog[k] = n})
                      = IF Stored(b.before, n) THEN 0 ELSE 1

\* C22: in the texture list that loadModel builds for a mesh no two
\* descriptors with a texture have the same source name.  A path that the
\* list already holds is skipped, in the same channel and in a later one:
\* the list holds one descriptor of the path, tagged with the first channel
\* that references it, and the path is decoded once by the call, or not at
\* all when the storage held it before.
C22_NoDuplicateInMesh ==
    ImportDone => \A i \in 1..Len(builtLog) : C22_Mesh(builtLog[i])

\* C22 witness: the material references the same opaque texture in the
\* diffuse and in the specular channel; the mesh holds one descriptor, of
\* type texture_diffuse, and the texture was decoded once
C22_Witness ==
    /\ ImportDone
    /\ Len(builtLog) = 1
    /\ BuiltMaterial(builtLog[1]).diffuse = <<NameB>>
    /\ BuiltMaterial(builtLog[1]).specular = <<NameB>>
    /\ decodeLog = <<NameB>>
    /\ Len(builtLog[1].result.textures) = 1
    /\ builtLog[1].result.textures[1].type = texture_diffuse
    /\ Len(geom.textureStorage) = 1

\* the position of a node among the children of its parent
ChildRank(sc, node) ==
    CHOOSE c \in 1..Len(sc.nodes[ParentOf(sc, node)].children) :
        sc.nodes[ParentOf(sc, node)].children[c] = node

\* the child positions on the way from the root down to a node
RECURSIVE NodePath(_, _)
NodePath(sc, node) ==
    IF ParentOf(sc, node) = 0 THEN <<>>
    ELSE Append(NodePath(sc, ParentOf(sc, node)), ChildRank(sc, node))

\* the node of path p comes before the node of path q in depth-first
\* pre-order: p is an ancestor of q, or they part at a child of lower
\* position
PreOrderBefore(p, q) ==
    \E k \in 0..Min(Len(p), Len(q)) :
        /\ Prefix(p, k) = Prefix(q, k)
        /\ \/ k = Len(p) /\ k < Len(q)
           \/ k < Len(p) /\ k < Len(q) /\ p[k + 1] < q[k + 1]

\* the processMesh calls made for a node, in call order
BuiltFor(node) == SelectSeq(builtLog, LAMBDA b : b.node = node)

\* the meshes that processNode kept, in call order
KeptBuilt == IF forceRenderInvisible THEN builtLog ELSE VisibleBuilt

\* C23: the meshes of the geometry that loadModel returns are in
\* depth-first pre-order of the node tree: the meshes of a node are built
\* in the order of the node's mesh references and before the meshes of
\* every descendant, the subtrees of the children follow in child order,
\* and the geometry holds the kept meshes in the order they were built, so
\* dropping a mesh does not reorder the others.
C23_PreOrder ==
    ImportDone =>
        /\ \A i, j \in 1..Len(builtLog) :
               i < j =>
                   \/ builtLog[i].node = builtLog[j].node
                   \/ PreOrderBefore(NodePath(scene, builtLog[i].node),
                                     NodePath(scene, builtLog[j].node))
        /\ \A n \in 1..Len(scene.nodes) :
               [k \in 1..Len(BuiltFor(n)) |-> BuiltFor(n)[k].mesh]
                   = scene.nodes[n].meshes
        /\ Len(geom.meshes) = Len(KeptBuilt)
        /\ \A k \in 1..Len(geom.meshes) :
               /\ geom.meshes[k].vertices = KeptBuilt[k].result.vertices
               /\ geom.meshes[k].indices = KeptBuilt[k].result.indices

\* C23 witness: node 4 is the child of node 2 and node 3 the sibling after
\* node 2; every node holds both meshes and the second is dropped: the
\* geometry holds the first mesh of the nodes 1, 2, 4, 3 in that order
C23_Witness ==
    /\ ImportDone
    /\ ~forceRenderInvisible
    /\ Len(scene.nodes) = 4
    /\ scene.nodes[2].children = <<4>>
    /\ \A n \in 1..4 : scene.nodes[n].meshes = <<1, 2>>
    /\ [k \in 1..Len(builtLog) |-> builtLog[k].node]
           = <<1, 1, 2, 2, 4, 4, 3, 3>>
    /\ Len(geom.meshes) = 4
    /\ [k \in 1..4 |-> VisibleBuilt[k].node] = <<1, 2, 4, 3>>

\* the values of opengl::Texture::Format and the data types that have a
\* code in the cache
Formats == {"Red", "RG", "RGB", "BGR", "RGBA", "BGRA", "DepthComponent"}

DataTypes ==
    {"GL_BYTE", "GL_UNSIGNED_BYTE", "GL_SHORT", "GL_UNSIGNED_SHORT", "GL_INT",
     "GL_UNSIGNED_INT", "GL_FLOAT", "GL_DOUBLE"}

\* the cell of the file at which texture entry te of the storage starts
RECURSIVE EntryStart(_, _)
EntryStart(storage, te) ==
    IF te = 1 THEN 3
    ELSE EntryStart(storage, te - 1)
             + Len(RawTextureEntry(storage[te - 1]))

\* the cells of entry te that hold the format code / the data type code
FormatCells(s, storage, te) ==
    SubSeq(s, EntryStart(storage, te) + Len(storage[te].name) + 4,
              EntryStart(storage, te) + Len(storage[te].name) + 3
                  + FORMAT_STRING_SIZE)

DataTypeCells(s, storage, te) ==
    SubSeq(s, EntryStart(storage, te) + Len(storage[te].name) + 5
                  + FORMAT_STRING_SIZE,
              EntryStart(storage, te) + Len(storage[te].name) + 4
                  + 2 * FORMAT_STRING_SIZE)

\* C24: every format and every data type is written as a code of exactly
\* FORMAT_STRING_SIZE characters, padded with spaces; the code read back
\* gives the value written and different values have different codes.
\* After a save that returned true, loadCachedFile of the file returns for
\* every texture entry the name, the three dimensions, the format, the raw
\* internal format and the data type that were saved.
C24_MetadataRoundTrip ==
    /\ \A f \in Formats :
           /\ Len(formatToString(f)) = FORMAT_STRING_SIZE
           /\ stringToFormat(formatToString(f)) = f
           /\ \A g \in Formats \ {f} :
                  formatToString(g) /= formatToString(f)
    /\ \A d \in DataTypes :
           /\ Len(dataTypeToString(d)) = FORMAT_STRING_SIZE
           /\ stringToDataType(dataTypeToString(d)) = d
           /\ \A e \in DataTypes \ {d} :
                  dataTypeToString(e) /= dataTypeToString(d)
    /\ (fileOrigin = "saved") =>
           \A te \in 1..Len(saved.textureStorage) :
               /\ saved.textureStorage[te].texture.format \in Formats
               /\ saved.textureStorage[te].texture.dataType \in DataTypes
               /\ FormatCells(file, saved.textureStorage, te)
                      = formatToString(
                            saved.textureStorage[te].texture.format)
               /\ DataTypeCells(file, saved.textureStorage, te)
                      = dataTypeToString(
                            saved.textureStorage[te].texture.dataType)
    /\ LoadedSavedFile =>
           /\ result.status = "ok"
           /\ Len(geom.textureStorage) = Len(saved.textureStorage)
           /\ \A te \in 1..Len(saved.textureStorage) :
                  /\ geom.textureStorage[te].name
                         = saved.textureStorage[te].name
                  /\ geom.textureStorage[te].texture.dimensions
                         = saved.textureStorage[te].texture.dimensions
                  /\ geom.textureStorage[te].texture.format
                         = saved.textureStorage[te].texture.format
                  /\ geom.textureStorage[te].texture.internalFormat
                         = saved.textureStorage[te].texture.internalFormat
                  /\ geom.textureStorage[te].texture.dataType
                         = saved.textureStorage[te].texture.dataType

\* C24 witness: a texture entry with the depth format, written as "Dept",
\* and the float data type came back from the cache
C24_Witness ==
    /\ LoadedSavedFile
    /\ result.status = "ok"
    /\ Len(geom.textureStorage) = 1
    /\ geom.textureStorage[1].texture.format = "DepthComponent"
    /\ geom.textureStorage[1].texture.dataType = "GL_FLOAT"
    /\ geom.textureStorage[1].texture.internalFormat = 6402
    /\ FormatCells(file, saved.textureStorage, 1) = <<68, 101, 112, 116>>

\* a descriptor of g references a texture entry
ReferencesEntry(g) ==
    \E mt \in Descriptors(g) : g.meshes[mt[1]].textures[mt[2]].hasTexture

\* C25: a geometry that loadCachedFile returned for a saved file, with a
\* texture entry referenced by a descriptor, can be saved again: on a
\* destination that opens and accepts every write saveCachedFile returns
\* true for it and writes the cells of the file it was loaded from.
C25_CacheLoadedSavable ==
    /\ (/\ result.op = "save" /\ result.openOk /\ result.limit < 0
        /\ geomOrigin = "cache" /\ ReferencesEntry(geom)) =>
           result.status = "true"
    /\ (/\ LoadedSavedFile /\ result.status = "ok"
        /\ ReferencesEntry(geom)) =>
           /\ saveCachedFile(file, geom, TRUE, -1).status = "true"
           /\ saveCachedFile(file, geom, TRUE, -1).file = file

\* C26: saveCachedFile returns true for every geometry that loadModel
\* returned, whatever the scene and forceRenderInvisible, when the
\* destination opens and accepts every write.
C26_ImportedSavable ==
    (/\ result.op = "save" /\ result.openOk /\ result.limit < 0
     /\ geomOrigin = "loadModel") =>
        result.status = "true"

\* C27: loadCachedFile of a proper prefix of a file that a successful
\* saveCachedFile wrote does not return a geometry: it ends with an
\* exception.
C27_TruncatedRejected ==
    (result.op = "load" /\ result.openOk /\ fileOrigin = "truncated") =>
        /\ result.status /= "ok"
        /\ geom.null

\* C28: loadCachedFile of a file in which a count or a length is negative
\* throws the load exception of the model reader, with a message, as it
\* does for a count of zero, and returns no geometry.
C28_NegativeCountRejected ==
    (result.op = "load" /\ result.openOk /\ fileOrigin = "negative") =>
        /\ result.status = "ModelLoadException"
        /\ result.msg /= ""
        /\ geom.null

\* the texture entries of g that a descriptor of a mesh of g references
ReferencedEntries(g) ==
    {g.meshes[mt[1]].textures[mt[2]].texture :
        mt \in {d \in Descriptors(g) :
                   g.meshes[d[1]].textures[d[2]].hasTexture}}

\* C29: in the geometry that loadModel returns every entry of the texture
\* storage is referenced by a descriptor with hasTexture of a mesh of the
\* geometry, also when meshes were dropped as invisible and when textures
\* failed to load.
C29_NoOrphanEntry ==
    ImportDone =>
        ReferencedEntries(geom) = 1..Len(geom.textureStorage)

\* C29 witness: the first mesh added a texture to the storage; the second
\* mesh references a texture, was built without a descriptor and dropped;
\* the one entry is referenced by the first mesh
C29_Witness ==
    /\ ImportDone
    /\ ~forceRenderInvisible
    /\ Len(builtLog) = 2
    /\ Len(geom.textureStorage) = 1
    /\ Len(geom.meshes) = 1
    /\ builtLog[2].result.textures = <<>>
    /\ Referenced(BuiltMaterial(builtLog[2])) /= {}
    /\ ReferencedEntries(geom) = {1}

\* C30: as long as no release was made of a name that the manager does not
\* hold, a name is held exactly if it was requested more often than
\* released, and its reference count is the difference.  A request runs
\* the creation function exactly if the name is not held, and the count is
\* then 1; a request of a held name returns the program that the manager
\* held for it.  A release runs the destruction function, on the program
\* held, exactly if it brings the count to 0, and the name is then no
\* longer held; otherwise the name stays held with the same program.
C30_ReferenceCounting ==
    ~programLog.undefined =>
        /\ \A name \in Names :
               /\ name \in DOMAIN programs
                      <=> programLog.requests[name] > programLog.releases[name]
               /\ name \in DOMAIN programs =>
                      programs[name].refCount
                          = programLog.requests[name]
                                - programLog.releases[name]
               /\ programLog.creations[name] - programLog.destructions[name]
                      = IF name \in DOMAIN programs THEN 1 ELSE 0
        /\ programLog.op = "request" =>
               /\ programLog.created <=> ~programLog.held
               /\ programLog.created =>
                      programs[programLog.name].refCount = 1
               /\ programLog.held =>
                      /\ programLog.returned = programLog.program
                      /\ programs[programLog.name].refCount
                             = programLog.refCount + 1
               /\ programLog.returned = programs[programLog.name].program
               /\ programLog.destroyed = 0
        /\ programLog.op = "release" =>
               /\ programLog.held
               /\ ~programLog.created
               /\ programLog.destroyed /= 0 <=> programLog.refCount = 1
               /\ programLog.destroyed /= 0 =>
                      /\ programLog.destroyed = programLog.program
                      /\ programLog.name \notin DOMAIN programs
               /\ programLog.destroyed = 0 =>
                      /\ programLog.name \in DOMAIN programs
                      /\ programs[programLog.name].program
                             = programLog.program
                      /\ programs[programLog.name].refCount
                             = programLog.refCount - 1

\* C30 witness: a name was requested twice and released twice, which
\* destroyed its program, and requested again: a second program was
\* created for it while the other name stayed held
C30_Witness ==
    /\ ~programLog.undefined
    /\ programLog.op = "request"
    /\ programLog.name = NameA
    /\ programLog.requests[NameA] = 3
    /\ programLog.releases[NameA] = 2
    /\ programLog.creations[NameA] = 2
    /\ programLog.destructions[NameA] = 1
    /\ programLog.created
    /\ programs[NameA].refCount = 1
    /\ NameB \in DOMAIN programs
    /\ programs[NameB].refCount = 2
    /\ programs[NameA].program /= programs[NameB].program

====
